---- MODULE Spec2Model ----
(***************************************************************************)
(* Model of ramen's Linux (X11/XCB) backend: the shared Connection         *)
(* (Connection::new, Drop for Connection), the window lifecycle            *)
(* (Window::new, Drop for Window), the event demultiplexer                 *)
(* (Window::poll_events, process_event, keysym_to_key) and the capability  *)
(* table of ffi.rs (setup, Xcb).                                           *)
(*                                                                         *)
(* Six specifications share the variables: Spec (windows and events on an *)
(* established Connection), SpecLife (a Connection from Connection::new to *)
(* its drop), SpecDrain (Window::new and poll_events fed with every kind   *)
(* of native record), SpecPure (single calls of process_event,             *)
(* keysym_to_key and Connection::check), SpecFfi (the capability table)    *)
(* and SpecFair (callers blocking in mutex_lock, fairly scheduled).        *)
(*                                                                         *)
(* Each slot is one window object and the thread that drives it; a slot    *)
(* takes one step per native call or loop iteration between mutex_lock and *)
(* the drop of the guard, so that operations of different windows          *)
(* interleave exactly where the lock lets them.                            *)
(*                                                                         *)
(* Stored events carry three ghost tags that the Rust values do not have:  *)
(* `seq` (a serial number, so that one event can be told from another),    *)
(* `win` (the target the demultiplexer computed) and `via` (which routing  *)
(* arm stored it).  `fault` keeps what the native call that made the last *)
(* Window::new fail had returned, until the next operation takes the lock. *)
(*                                                                         *)
(* The server is modelled by what the code can observe of it:              *)
(* xcb_generate_id returns an identifier that no window on the server      *)
(* uses (or the failure value), and events may name any identifier.        *)
(***************************************************************************)
EXTENDS Integers, Sequences, FiniteSets, TLC

----------------------------------------------------------------------------
(* Bounds of the model *)

\* window objects (each one is owned and driven by one thread at a time)
NSlots == 2
\* identifiers the server can hand out
NXids == 2
\* native events the server sends during one run
MaxEvents == 2
\* native calls of Window::new that fail during one run
MaxFaults == 1

Slots == 1..NSlots
XIDs == 1..NXids
None == 0

----------------------------------------------------------------------------
(* Native constants used by imp.rs *)

XCB_NONE == 0
XCB_CONN_ERROR == 1
XCB_CONN_CLOSED_EXT_NOTSUPPORTED == 2
XCB_CONN_CLOSED_MEM_INSUFFICIENT == 3
XCB_ALLOC == 11
XCB_CLIENT_MESSAGE == 33
XCB_GE_GENERIC == 35
XCB_INPUT_KEY_PRESS == 2
XCB_INPUT_KEY_RELEASE == 3
XCB_INPUT_BUTTON_PRESS == 4
XCB_INPUT_BUTTON_RELEASE == 5
XCB_INPUT_MOTION == 6
XCB_INPUT_ENTER == 7
XCB_INPUT_LEAVE == 8
XCB_INPUT_FOCUS_IN == 9
XCB_INPUT_FOCUS_OUT == 10
XCB_INPUT_KEY_EVENT_FLAGS_KEY_REPEAT == 65536
\* xcb_generate_id's failure value !0u32, written as the signed value of the
\* same 32 bits
XID_SENTINEL == -1
N_ATOMS == 6
\* hostname retry loop: first buffer length and the sanity limit 1 << 16
HOST_LEN_FIRST == 16
HOST_LEN_LIMIT == 65536
\* cfg(feature = "input")
FeatureInput == TRUE

\* `x & !(1 << 7)` on a u8
ClearBit7(x) == IF (x % 256) >= 128 THEN (x % 256) - 128 ELSE x % 256

----------------------------------------------------------------------------
(* keysym_to_key *)

BaseKeys ==
  << <<\h2C, "OemComma">>, <<\h2D, "OemMinus">>, <<\h2E, "OemPeriod">>,
     <<\h30, "Alpha0">>, <<\h31, "Alpha1">>, <<\h32, "Alpha2">>, <<\h33, "Alpha3">>,
     <<\h34, "Alpha4">>, <<\h35, "Alpha5">>, <<\h36, "Alpha6">>, <<\h37, "Alpha7">>,
     <<\h38, "Alpha8">>, <<\h39, "Alpha9">>, <<\h3D, "OemPlus">>,
     <<\h61, "A">>, <<\h62, "B">>, <<\h63, "C">>, <<\h64, "D">>, <<\h65, "E">>,
     <<\h66, "F">>, <<\h67, "G">>, <<\h68, "H">>, <<\h69, "I">>, <<\h6A, "J">>,
     <<\h6B, "K">>, <<\h6C, "L">>, <<\h6D, "M">>, <<\h6E, "N">>, <<\h6F, "O">>,
     <<\h70, "P">>, <<\h71, "Q">>, <<\h72, "R">>, <<\h73, "S">>, <<\h74, "T">>,
     <<\h75, "U">>, <<\h76, "V">>, <<\h77, "W">>, <<\h78, "X">>, <<\h79, "Y">>,
     <<\h7A, "Z">>,
     <<\hFF08, "Backspace">>, <<\hFF09, "Tab">>, <<\hFF0D, "Return">>,
     <<\hFF13, "Pause">>, <<\hFF14, "ScrollLock">>, <<\hFF1B, "Escape">>,
     <<\hFF50, "Home">>, <<\hFF51, "LeftArrow">>, <<\hFF52, "UpArrow">>,
     <<\hFF53, "RightArrow">>, <<\hFF54, "DownArrow">>, <<\hFF55, "PageUp">>,
     <<\hFF56, "PageDown">>, <<\hFF57, "End">>, <<\hFF63, "Insert">>,
     <<\hFF7F, "NumLock">>,
     <<\hFFBE, "F1">>, <<\hFFBF, "F2">>, <<\hFFC0, "F3">>, <<\hFFC1, "F4">>,
     <<\hFFC2, "F5">>, <<\hFFC3, "F6">>, <<\hFFC4, "F7">>, <<\hFFC5, "F8">>,
     <<\hFFC6, "F9">>, <<\hFFC7, "F10">>, <<\hFFC8, "F11">>, <<\hFFC9, "F12">>,
     <<\hFFCA, "F13">>, <<\hFFCB, "F14">>, <<\hFFCC, "F15">>, <<\hFFCD, "F16">>,
     <<\hFFCE, "F17">>, <<\hFFCF, "F18">>, <<\hFFD0, "F19">>, <<\hFFD1, "F20">>,
     <<\hFFD2, "F21">>, <<\hFFD3, "F22">>, <<\hFFD4, "F23">>, <<\hFFD5, "F24">>,
     <<\hFFE1, "LeftShift">>, <<\hFFE2, "RightShift">>, <<\hFFE3, "LeftControl">>,
     <<\hFFE4, "RightControl">>, <<\hFFE5, "CapsLock">>, <<\hFFE9, "LeftAlt">>,
     <<\hFFEB, "LeftSuper">>, <<\hFFEC, "RightSuper">>, <<\hFFFF, "Delete">> >>

KeypadKeys ==
  << <<\hFFAA, "KeypadMultiply">>, <<\hFFAB, "KeypadAdd">>,
     <<\hFFAC, "KeypadSeparator">>, <<\hFFAD, "KeypadSubtract">>,
     <<\hFFAE, "KeypadDecimal">>, <<\hFFAF, "KeypadDivide">>,
     <<\hFFB0, "Keypad0">>, <<\hFFB1, "Keypad1">>, <<\hFFB2, "Keypad2">>,
     <<\hFFB3, "Keypad3">>, <<\hFFB4, "Keypad4">>, <<\hFFB5, "Keypad5">>,
     <<\hFFB6, "Keypad6">>, <<\hFFB7, "Keypad7">>, <<\hFFB8, "Keypad8">>,
     <<\hFFB9, "Keypad9">> >>

\* the arm of a `match` over a table of (pattern, key) pairs; "None" for `_`
MatchArm(table, k) ==
  IF \E i \in DOMAIN table : table[i][1] = k
  THEN table[CHOOSE i \in DOMAIN table : table[i][1] = k][2]
  ELSE "None"

\* keysym_to_key that matches the shifted keysym before the base keysym
keysym_to_key_ShiftedFirst(keysym, keysym2) ==
  IF MatchArm(KeypadKeys, keysym2) # "None"
  THEN MatchArm(KeypadKeys, keysym2)
  ELSE MatchArm(BaseKeys, keysym)

keysym_to_key(keysym, keysym2) ==
  IF MatchArm(BaseKeys, keysym) # "None"
  THEN MatchArm(BaseKeys, keysym)
  ELSE MatchArm(KeypadKeys, keysym2)

----------------------------------------------------------------------------
(* process_event: classification of one native event record.  The result is *)
(* [ev, key, win], or NoEvent for `None`.                                  *)

NoEvent == [ev |-> "None", key |-> "None", win |-> None]

\* KeyEventKind that looks at the repeat flag before the sub-type
KeyEventKind_RepeatFirst(event_type, flags) ==
  IF (flags \div XCB_INPUT_KEY_EVENT_FLAGS_KEY_REPEAT) % 2 # 0
  THEN "KeyboardRepeat"
  ELSE IF ClearBit7(event_type) = XCB_INPUT_KEY_PRESS
  THEN "KeyboardDown"
  ELSE "KeyboardUp"

\* the constructor `f` chosen from is_press and repeat
KeyEventKind(event_type, flags) ==
  IF ClearBit7(event_type) = XCB_INPUT_KEY_PRESS
  THEN IF (flags \div XCB_INPUT_KEY_EVENT_FLAGS_KEY_REPEAT) % 2 # 0
       THEN "KeyboardRepeat" ELSE "KeyboardDown"
  ELSE "KeyboardUp"

\* process_event without the test of the format
process_event_AnyFormat(a, ext, ev) ==
  IF ClearBit7(ev.response_type) = XCB_CLIENT_MESSAGE
  THEN IF ev.type = a.wm_protocols /\ ev.data0 = a.wm_delete_window
       THEN [ev |-> "CloseRequest", key |-> "SystemMenu", win |-> ev.window]
       ELSE NoEvent
  ELSE IF FeatureInput /\ ClearBit7(ev.response_type) = XCB_GE_GENERIC
  THEN IF ev.extension = ext
       THEN IF ClearBit7(ev.event_type) \in {XCB_INPUT_KEY_PRESS, XCB_INPUT_KEY_RELEASE}
            THEN IF keysym_to_key(ev.keysym, ev.keysym2) # "None"
                 THEN [ev |-> KeyEventKind(ev.event_type, ev.flags),
                       key |-> keysym_to_key(ev.keysym, ev.keysym2),
                       win |-> ev.event]
                 ELSE NoEvent
            ELSE IF ClearBit7(ev.event_type) \in {XCB_INPUT_FOCUS_IN, XCB_INPUT_FOCUS_OUT}
            THEN [ev |-> "Focus",
                  key |-> IF ClearBit7(ev.event_type) = XCB_INPUT_FOCUS_IN
                          THEN "true" ELSE "false",
                  win |-> ev.event]
            ELSE NoEvent
       ELSE NoEvent
  ELSE NoEvent

\* process_event that takes button events for key events
process_event_ButtonsAreKeys(a, ext, ev) ==
  IF ClearBit7(ev.response_type) = XCB_CLIENT_MESSAGE
  THEN IF ev.format = 32 /\ ev.type = a.wm_protocols /\ ev.data0 = a.wm_delete_window
       THEN [ev |-> "CloseRequest", key |-> "SystemMenu", win |-> ev.window]
       ELSE NoEvent
  ELSE IF FeatureInput /\ ClearBit7(ev.response_type) = XCB_GE_GENERIC
  THEN IF ev.extension = ext
       THEN IF ClearBit7(ev.event_type) \in {XCB_INPUT_KEY_PRESS, XCB_INPUT_KEY_RELEASE,
                                              XCB_INPUT_BUTTON_PRESS, XCB_INPUT_BUTTON_RELEASE}
            THEN IF keysym_to_key(ev.keysym, ev.keysym2) # "None"
                 THEN [ev |-> KeyEventKind(ev.event_type, ev.flags),
                       key |-> keysym_to_key(ev.keysym, ev.keysym2),
                       win |-> ev.event]
                 ELSE NoEvent
            ELSE IF ClearBit7(ev.event_type) \in {XCB_INPUT_FOCUS_IN, XCB_INPUT_FOCUS_OUT}
            THEN [ev |-> "Focus",
                  key |-> IF ClearBit7(ev.event_type) = XCB_INPUT_FOCUS_IN
                          THEN "true" ELSE "false",
                  win |-> ev.event]
            ELSE NoEvent
       ELSE NoEvent
  ELSE NoEvent

\* process_event: the abstract event and its target for a native record, or
\* NoEvent where the code returns None
process_event(a, ext, ev) ==
  IF ClearBit7(ev.response_type) = XCB_CLIENT_MESSAGE
  THEN IF ev.format = 32 /\ ev.type = a.wm_protocols /\ ev.data0 = a.wm_delete_window
       THEN [ev |-> "CloseRequest", key |-> "SystemMenu", win |-> ev.window]
       ELSE NoEvent
  ELSE IF FeatureInput /\ ClearBit7(ev.response_type) = XCB_GE_GENERIC
  THEN IF ev.extension = ext
       THEN IF ClearBit7(ev.event_type) \in {XCB_INPUT_KEY_PRESS, XCB_INPUT_KEY_RELEASE}
            THEN IF keysym_to_key(ev.keysym, ev.keysym2) # "None"
                 THEN [ev |-> KeyEventKind(ev.event_type, ev.flags),
                       key |-> keysym_to_key(ev.keysym, ev.keysym2),
                       win |-> ev.event]
                 ELSE NoEvent
            ELSE IF ClearBit7(ev.event_type) \in {XCB_INPUT_FOCUS_IN, XCB_INPUT_FOCUS_OUT}
            THEN [ev |-> "Focus",
                  key |-> IF ClearBit7(ev.event_type) = XCB_INPUT_FOCUS_IN
                          THEN "true" ELSE "false",
                  win |-> ev.event]
            ELSE NoEvent
       ELSE NoEvent
  ELSE NoEvent

\* Freed that releases only the records the match did not classify
Freed_UnclassifiedOnly(m) == IF m = NoEvent THEN 1 ELSE 0

\* `free(ev.cast())` between the match of process_event and the return of its
\* value m: the number of times the native record is released
Freed(m) == 1

----------------------------------------------------------------------------
(* State *)

VARIABLES
  \* Connection::new (imp.rs) and the Connection it returns
  conn_pc,            \* position inside Connection::new / lifetime of the Connection
  conn_result,        \* what Connection::new returned
  display,            \* TRUE once XOpenDisplay returned a non-null handle
  closes,             \* number of XCloseDisplay calls on that handle
  atoms,              \* Connection.atoms
  xinput,             \* Connection.extensions.xinput
  hostname,           \* Connection.hostname: "None" or "Some"
  len,                \* local `len` of the hostname loop
  host_tries,         \* gethostname calls made so far by the loop
  host_err,           \* local `err` of the hostname loop: what the last call returned
  conn_event_buffer,  \* Connection.event_buffer: HashMap<xcb_window_t, Vec<Event>>
  user_handle,        \* the caller still holds its connection::Connection
  mutex,              \* the Mutex around the Connection: None or the slot holding it
  \* Window
  pc,                 \* per slot: position of the thread that drives the window
  xid,                \* per slot: local `xid` of Window::new
  handle,             \* per slot: Window.handle
  win_event_buffer,   \* per slot: Window.event_buffer
  result,             \* per slot: what the last Window::new returned
  requests,           \* per slot: requests Window::new issued for its xid
  \* the X server and libxcb
  wire,               \* events sent by the server, not yet read from the socket
  queue,              \* libxcb's queue of events read and not yet returned
  nsent,              \* number of events sent so far
  nfaults,            \* number of failed native calls of Window::new so far
  server_windows,     \* identifiers of the windows that exist on the server
  \* history
  last_route,         \* what the running drain loop did with the last event it pulled
  shown,              \* serials that were in a buffer when its window's poll began
  returned,           \* per slot: what events() returned since the last poll
  \* local of Connection::new
  xi,                 \* the reply to the XInputExtension query
  \* locals of Window::new
  fault,              \* what the native call that made the last create fail returned
  \* one call of a function that reads no state
  call,               \* the function and its arguments
  ret,                \* what it returned
  \* the capability table (ffi.rs)
  LIBXCB,             \* lazy static LIBXCB: the dlopen handle
  XCB,                \* lazy static XCB: the table setup() built
  setup_pc,           \* position inside setup() / lifetime of the table
  native_conns,       \* connections xcb_connect opened and nobody disconnected
  ffi_log             \* the calls made on the table and what each did

conn_vars == <<conn_pc, conn_result, display, closes, atoms, xinput, hostname,
               len, host_tries, host_err, conn_event_buffer, user_handle, mutex>>
win_vars == <<pc, xid, handle, win_event_buffer, result, requests>>
x_vars == <<wire, queue, nsent, nfaults, server_windows>>
hist_vars == <<last_route, shown, returned>>
pure_vars == <<call, ret>>
ffi_vars == <<LIBXCB, XCB, setup_pc, native_conns, ffi_log>>
vars == <<conn_vars, win_vars, x_vars, hist_vars, xi, fault, pure_vars, ffi_vars>>

NoAtoms == [wm_protocols |-> 0, wm_delete_window |-> 0, _net_wm_name |-> 0,
            utf8_string |-> 0, _net_wm_pid |-> 0, wm_client_machine |-> 0]
Unset == [set |-> FALSE, val |-> << >>]
NoRoute == [seq |-> 0, disp |-> "none", win |-> None, frees |-> 0]
\* no create has failed since the last operation began
NoFault == [call |-> "none", code |-> 0, err |-> 0]

\* no window, nothing sent: the part of the state outside the Connection
InitRest ==
  /\ mutex = None
  /\ pc = [w \in Slots |-> "none"]
  /\ xid = [w \in Slots |-> None]
  /\ handle = [w \in Slots |-> None]
  /\ win_event_buffer = [w \in Slots |-> << >>]
  /\ result = [w \in Slots |-> "none"]
  /\ requests = [w \in Slots |-> {}]
  /\ wire = << >>
  /\ queue = << >>
  /\ nsent = 0
  /\ nfaults = 0
  /\ server_windows = {}
  /\ last_route = NoRoute
  /\ fault = NoFault
  /\ shown = {}
  /\ returned = [w \in Slots |-> Unset]

\* no pure call is under way
NoCall == [fn |-> "none", ev |-> << >>, keysym |-> 0, keysym2 |-> 0, err |-> 0]
NoRet == [set |-> FALSE, mapping |-> << >>, key |-> "None", res |-> "none"]
InitPure ==
  /\ call = NoCall
  /\ ret = NoRet

\* the lazy statics of ffi.rs before their first use
NoXcb == [connection |-> FALSE, screen |-> FALSE, fns |-> "unset"]
InitFfi ==
  /\ LIBXCB = "unset"
  /\ XCB = NoXcb
  /\ setup_pc = "unset"
  /\ native_conns = 0
  /\ ffi_log = << >>

\* before Connection::new
InitLife ==
  /\ conn_pc = "load"
  /\ conn_result = "pending"
  /\ display = FALSE
  /\ closes = 0
  /\ atoms = NoAtoms
  /\ xinput = 0
  /\ hostname = "None"
  /\ len = 0
  /\ host_tries = 0
  /\ host_err = 0
  /\ conn_event_buffer = << >>
  /\ user_handle = FALSE
  /\ xi = "none"
  /\ InitRest
  /\ InitPure
  /\ InitFfi

----------------------------------------------------------------------------
(* The X server *)

\* the atom the server assigns to the i-th name interned by Atoms::new
ServerAtom(i) == 400 + i
\* the major opcode the server assigns to XInputExtension
ServerXiOpcode == 131

----------------------------------------------------------------------------
(* Connection::new *)

\* Connection::new returns Err(e); nothing it acquired is released
ConnFail(e) ==
  /\ conn_pc' = "failed"
  /\ conn_result' = e

\* libX11::load()?; libX11_xcb::load()?; libxcb::load()?;
ConnLoad ==
  /\ conn_pc = "load"
  /\ \E failing \in 0..3 :
       IF failing # 0
       THEN ConnFail("LoadError")
       ELSE conn_pc' = "open" /\ UNCHANGED conn_result
  /\ UNCHANGED <<display, closes, atoms, xinput, hostname, len, host_tries, host_err,
                 conn_event_buffer, user_handle, mutex>>
  /\ UNCHANGED <<win_vars, x_vars, hist_vars>>
  /\ UNCHANGED <<xi, fault, pure_vars, ffi_vars>>

\* XOpenDisplay and the screen walk
ConnOpen ==
  /\ conn_pc = "open"
  /\ \E is_null \in BOOLEAN :
       IF is_null
       THEN ConnFail("Unknown") /\ UNCHANGED display
       ELSE conn_pc' = "atoms" /\ display' = TRUE /\ UNCHANGED conn_result
  /\ UNCHANGED <<closes, atoms, xinput, hostname, len, host_tries, host_err,
                 conn_event_buffer, user_handle, mutex>>
  /\ UNCHANGED <<win_vars, x_vars, hist_vars>>
  /\ UNCHANGED <<xi, fault, pure_vars, ffi_vars>>

\* Atoms::new over the replies to the six requests; a reply of None is null
AtomsErr == << >>
\* AtomsLoop that leaves the atom of a null reply at zero and goes on
RECURSIVE AtomsLoop_SkipFailed(_, _, _)
AtomsLoop_SkipFailed(replies, i, acc) ==
  IF i > N_ATOMS THEN acc
  ELSE IF replies[i] # None
       THEN AtomsLoop_SkipFailed(replies, i + 1, [acc EXCEPT ![i] = replies[i]])
       ELSE AtomsLoop_SkipFailed(replies, i + 1, acc)

RECURSIVE AtomsLoop(_, _, _)
AtomsLoop(replies, i, acc) ==
  IF i > N_ATOMS THEN acc
  ELSE IF replies[i] # None
       THEN AtomsLoop(replies, i + 1, [acc EXCEPT ![i] = replies[i]])
       ELSE AtomsErr

AtomsNew(replies) ==
  LET a == AtomsLoop(replies, 1, [i \in 1..N_ATOMS |-> 0])
  IN IF a = AtomsErr THEN AtomsErr
     ELSE [wm_protocols |-> a[1], wm_delete_window |-> a[2], _net_wm_name |-> a[3],
           utf8_string |-> a[4], _net_wm_pid |-> a[5], wm_client_machine |-> a[6]]

ConnAtoms ==
  /\ conn_pc = "atoms"
  /\ \E failed \in SUBSET (1..N_ATOMS) :
       LET replies == [i \in 1..N_ATOMS |-> IF i \in failed THEN None ELSE ServerAtom(i)]
       IN IF AtomsNew(replies) = AtomsErr
          THEN ConnFail("SystemResources") /\ UNCHANGED atoms
          ELSE /\ atoms' = AtomsNew(replies)
               /\ conn_pc' = IF FeatureInput THEN "xi" ELSE "host"
               /\ UNCHANGED conn_result
  /\ len' = IF conn_pc' = "host" THEN HOST_LEN_FIRST ELSE len
  /\ UNCHANGED <<display, closes, xinput, hostname, host_tries, host_err,
                 conn_event_buffer, user_handle, mutex>>
  /\ UNCHANGED <<win_vars, x_vars, hist_vars>>
  /\ UNCHANGED <<xi, fault, pure_vars, ffi_vars>>

\* ConnXi that goes on without the extension when the reply says it is absent
ConnXi_Degraded ==
  /\ conn_pc = "xi"
  /\ \E reply \in {"null", "absent", "present"}, load_ok \in BOOLEAN :
       /\ xi' = reply
       /\ IF reply = "null"
          THEN ConnFail("SystemResources") /\ UNCHANGED <<xinput, len>>
          ELSE IF reply = "absent"
          THEN /\ xinput' = 0
               /\ conn_pc' = "host"
               /\ len' = HOST_LEN_FIRST
               /\ UNCHANGED conn_result
          ELSE IF ~load_ok
          THEN ConnFail("LoadError") /\ UNCHANGED <<xinput, len>>
          ELSE /\ xinput' = ServerXiOpcode
               /\ conn_pc' = "host"
               /\ len' = HOST_LEN_FIRST
               /\ UNCHANGED conn_result
  /\ UNCHANGED <<display, closes, atoms, hostname, host_tries, host_err,
                 conn_event_buffer, user_handle, mutex>>
  /\ UNCHANGED <<win_vars, x_vars, hist_vars>>
  /\ UNCHANGED <<fault, pure_vars, ffi_vars>>

\* the XInputExtension query and libxcb_xinput::load()?
ConnXi ==
  /\ conn_pc = "xi"
  /\ \E reply \in {"null", "absent", "present"}, load_ok \in BOOLEAN :
       /\ xi' = reply
       /\ IF reply = "null"
          THEN ConnFail("SystemResources") /\ UNCHANGED <<xinput, len>>
          ELSE IF reply = "absent"
          THEN ConnFail("Unsupported") /\ UNCHANGED <<xinput, len>>
          ELSE IF ~load_ok
          THEN ConnFail("LoadError") /\ UNCHANGED <<xinput, len>>
          ELSE /\ xinput' = ServerXiOpcode
               /\ conn_pc' = "host"
               /\ len' = HOST_LEN_FIRST
               /\ UNCHANGED conn_result
  /\ UNCHANGED <<display, closes, atoms, hostname, host_tries, host_err,
                 conn_event_buffer, user_handle, mutex>>
  /\ UNCHANGED <<win_vars, x_vars, hist_vars>>
  /\ UNCHANGED <<fault, pure_vars, ffi_vars>>

\* len.checked_mul(2).  Every len the loop holds is at most HOST_LEN_LIMIT
\* (TypeOK), so the product stays far below usize::MAX and the overflow arm
\* (None) is never taken.
CheckedMul2(l) == l * 2

\* Ok(Connection { .. }): the locals of Connection::new go out of scope and
\* the caller receives its handle
ConnOk(h) ==
  /\ hostname' = h
  /\ conn_pc' = "ready"
  /\ conn_result' = "Ok"
  /\ conn_event_buffer' = << >>
  /\ user_handle' = TRUE
  /\ len' = 0
  /\ host_tries' = 0

\* ConnHost that reports an error when the loop gives up
ConnHost_FailOnGiveUp ==
  /\ conn_pc = "host"
  /\ \E err \in {0, -1} :
       /\ host_err' = err
       /\ IF err = 0
          THEN ConnOk("Some")
          ELSE IF CheckedMul2(len) <= HOST_LEN_LIMIT
               THEN /\ len' = CheckedMul2(len)
                    /\ host_tries' = host_tries + 1
                    /\ UNCHANGED <<conn_pc, conn_result, hostname, conn_event_buffer,
                                   user_handle>>
               ELSE /\ ConnFail("Unknown")
                    /\ UNCHANGED <<hostname, conn_event_buffer, user_handle, len,
                                   host_tries>>
  /\ UNCHANGED <<display, closes, atoms, xinput, mutex>>
  /\ UNCHANGED <<win_vars, x_vars, hist_vars>>
  /\ UNCHANGED <<xi, fault, pure_vars, ffi_vars>>

\* ConnHost that compares the length just tried, not its double, to the limit
ConnHost_LimitOnCurrent ==
  /\ conn_pc = "host"
  /\ \E err \in {0, -1} :
       /\ host_err' = err
       /\ IF err = 0
          THEN ConnOk("Some")
          ELSE IF len <= HOST_LEN_LIMIT
               THEN /\ len' = CheckedMul2(len)
                    /\ host_tries' = host_tries + 1
                    /\ UNCHANGED <<conn_pc, conn_result, hostname, conn_event_buffer,
                                   user_handle>>
               ELSE ConnOk("None")
  /\ UNCHANGED <<display, closes, atoms, xinput, mutex>>
  /\ UNCHANGED <<win_vars, x_vars, hist_vars>>
  /\ UNCHANGED <<xi, fault, pure_vars, ffi_vars>>

\* one iteration of the hostname loop
ConnHost ==
  /\ conn_pc = "host"
  /\ \E err \in {0, -1} :
       /\ host_err' = err
       /\ IF err = 0
          THEN ConnOk("Some")
          ELSE IF CheckedMul2(len) <= HOST_LEN_LIMIT
               THEN /\ len' = CheckedMul2(len)
                    /\ host_tries' = host_tries + 1
                    /\ UNCHANGED <<conn_pc, conn_result, hostname, conn_event_buffer,
                                   user_handle>>
               ELSE ConnOk("None")
  /\ UNCHANGED <<display, closes, atoms, xinput, mutex>>
  /\ UNCHANGED <<win_vars, x_vars, hist_vars>>
  /\ UNCHANGED <<xi, fault, pure_vars, ffi_vars>>

\* check with the arms of the two specific codes exchanged
check_Swapped(err) ==
  CASE err = XCB_NONE -> "Ok"
    [] err = XCB_CONN_CLOSED_EXT_NOTSUPPORTED -> "SystemResources"
    [] err = XCB_CONN_CLOSED_MEM_INSUFFICIENT -> "Unsupported"
    [] OTHER -> "Invalid"

\* Connection::check
check(err) ==
  CASE err = XCB_NONE -> "Ok"
    [] err = XCB_CONN_CLOSED_EXT_NOTSUPPORTED -> "Unsupported"
    [] err = XCB_CONN_CLOSED_MEM_INSUFFICIENT -> "SystemResources"
    [] OTHER -> "Invalid"

\* values xcb_connection_has_error can return
ConnErrors == 0..4

----------------------------------------------------------------------------
(* Ownership of the Connection and the lock around it *)

\* util::sync::mutex_lock on the Connection's Mutex
MutexLock(w) ==
  /\ mutex = None
  /\ mutex' = w
  /\ fault' = NoFault

\* Holders if Window did not keep the Builder's connection::Connection
Holders_BuilderOnly == {w \in Slots : pc[w] \in {"c_id", "c_first", "c_queued", "c_create", "c_map", "c_flush"}}

\* slots that own a connection::Connection: the Builder handed to Window::new
\* and, afterwards, the field Window.connection
Holders == {w \in Slots : pc[w] # "none"}

\* Drop for Connection: flush, then XCloseDisplay
ConnectionDrop ==
  /\ conn_pc' = "closed"
  /\ closes' = closes + 1

\* slot w gives up its connection::Connection; the Connection is dropped with
\* the last owner
ReleaseRef(w) ==
  IF ~user_handle /\ Holders \ {w} = {}
  THEN ConnectionDrop
  ELSE UNCHANGED <<conn_pc, closes>>

\* the caller drops its own connection::Connection
UserDrop ==
  /\ conn_pc = "ready"
  /\ user_handle
  /\ user_handle' = FALSE
  /\ IF Holders = {} THEN ConnectionDrop ELSE UNCHANGED <<conn_pc, closes>>
  /\ UNCHANGED <<conn_result, display, atoms, xinput, hostname, len, host_tries, host_err,
                 conn_event_buffer, mutex>>
  /\ UNCHANGED <<win_vars, x_vars, hist_vars>>
  /\ UNCHANGED <<xi, fault, pure_vars, ffi_vars>>

----------------------------------------------------------------------------
(* The native event queue *)

\* the kinds of native event the server sends in Spec: a press of the key "a"
\* on any window (classified) and pointer motion (unclassified); "close" is
\* the close handshake
NativeEvent(kind, t, s) ==
  [seq |-> s,
   response_type |-> IF kind = "close" THEN XCB_CLIENT_MESSAGE ELSE XCB_GE_GENERIC,
   format |-> 32,
   type |-> ServerAtom(1),
   data0 |-> ServerAtom(2),
   window |-> t,
   extension |-> ServerXiOpcode,
   event_type |-> IF kind = "key" THEN XCB_INPUT_KEY_PRESS ELSE XCB_INPUT_MOTION,
   flags |-> 0,
   event |-> t,
   keysym |-> \h61,
   keysym2 |-> \h41]

SendChoices == ({"key"} \X XIDs) \cup {<<"motion", 1>>}

ServerSend ==
  /\ conn_pc = "ready"
  /\ nsent < MaxEvents
  /\ \E c \in SendChoices :
       wire' = Append(wire, NativeEvent(c[1], c[2], nsent + 1))
  /\ nsent' = nsent + 1
  /\ UNCHANGED <<queue, nfaults, server_windows, hist_vars>>
  /\ UNCHANGED <<conn_vars, win_vars>>
  /\ UNCHANGED <<xi, fault, pure_vars, ffi_vars>>

\* xcb_poll_for_event: the head of the queue, after reading the socket when
\* the queue is empty
PolledQueue == IF queue = << >> THEN wire ELSE queue
PolledWire == IF queue = << >> THEN << >> ELSE wire

\* a checked request waits for the server's answer: everything the server
\* sent before it is read into the queue
SyncRead ==
  /\ queue' = queue \o wire
  /\ wire' = << >>

\* the abstract event stored for native event n classified as m
Stored(n, m, via) ==
  [seq |-> n.seq, ev |-> m.ev, key |-> m.key, win |-> m.win, via |-> via]

\* Push that puts the event in front of the mailbox
Push_Front(map, k, e) == [map EXCEPT ![k] = <<e>> \o @]

\* queue.push(event) on the mailbox of k
Push(map, k, e) == [map EXCEPT ![k] = Append(@, e)]

----------------------------------------------------------------------------
(* Window::new *)

\* what a native call returned to the create it made fail: the identifier, the
\* error code of the reply or the result of xcb_flush, and for the last two
\* what xcb_connection_has_error said afterwards
Fault(c, code, err) == [call |-> c, code |-> code, err |-> err]

\* `return Err(e)`: the guard and the Builder are dropped
CreateErr(w, e, f) ==
  /\ fault' = f
  /\ pc' = [pc EXCEPT ![w] = "none"]
  /\ xid' = [xid EXCEPT ![w] = None]
  /\ result' = [result EXCEPT ![w] = e]
  /\ mutex' = None
  /\ ReleaseRef(w)

\* a native call of Window::new fails although it could have succeeded: one
\* of the MaxFaults such failures of the run
CreateFail(w, e, f) ==
  /\ nfaults < MaxFaults
  /\ nfaults' = nfaults + 1
  /\ CreateErr(w, e, f)

CreateLock(w) ==
  /\ conn_pc = "ready"
  /\ user_handle
  /\ pc[w] \in {"none", "c_wait"}
  /\ pc[w] = "none" => \A v \in Slots : v < w => pc[v] # "none"
  /\ MutexLock(w)
  /\ pc' = [pc EXCEPT ![w] = "c_id"]
  /\ result' = [result EXCEPT ![w] = "none"]
  /\ requests' = [requests EXCEPT ![w] = {}]
  /\ UNCHANGED <<conn_pc, conn_result, display, closes, atoms, xinput, hostname,
                 len, host_tries, host_err, conn_event_buffer, user_handle>>
  /\ UNCHANGED <<xid, handle, win_event_buffer>>
  /\ UNCHANGED <<x_vars, hist_vars>>
  /\ UNCHANGED <<xi, pure_vars, ffi_vars>>

\* CreateId without the test for the sentinel
CreateId_NoSentinelCheck(w) ==
  /\ pc[w] = "c_id"
  /\ \E id \in (XIDs \ server_windows) \cup {XID_SENTINEL} :
       /\ pc' = [pc EXCEPT ![w] = "c_first"]
       /\ xid' = [xid EXCEPT ![w] = id]
       /\ UNCHANGED <<result, mutex, conn_pc, closes, nfaults, fault>>
  /\ UNCHANGED <<conn_result, display, atoms, xinput, hostname, len, host_tries, host_err,
                 conn_event_buffer, user_handle>>
  /\ UNCHANGED <<handle, win_event_buffer, requests>>
  /\ UNCHANGED <<wire, queue, nsent, server_windows, hist_vars>>
  /\ UNCHANGED <<xi, pure_vars, ffi_vars>>

\* xcb_generate_id: an identifier no window on the server uses, or !0; when
\* every identifier is in use it can only be !0
CreateId(w) ==
  /\ pc[w] = "c_id"
  /\ \E id \in (XIDs \ server_windows) \cup {XID_SENTINEL} :
       IF id = XID_SENTINEL
       THEN IF XIDs \ server_windows = {}
            THEN /\ CreateErr(w, "SystemResources", Fault("generate_id", id, 0))
                 /\ UNCHANGED nfaults
            ELSE CreateFail(w, "SystemResources", Fault("generate_id", id, 0))
       ELSE /\ pc' = [pc EXCEPT ![w] = "c_first"]
            /\ xid' = [xid EXCEPT ![w] = id]
            /\ UNCHANGED <<result, mutex, conn_pc, closes, nfaults, fault>>
  /\ UNCHANGED <<conn_result, display, atoms, xinput, hostname, len, host_tries, host_err,
                 conn_event_buffer, user_handle>>
  /\ UNCHANGED <<handle, win_event_buffer, requests>>
  /\ UNCHANGED <<wire, queue, nsent, server_windows, hist_vars>>
  /\ UNCHANGED <<xi, pure_vars, ffi_vars>>

\* the routing of Window::new's pre-drain
RouteCreate(n) ==
  LET m == process_event(atoms, xinput, n)
  IN IF m = NoEvent
     THEN /\ last_route' = [seq |-> n.seq, disp |-> "unclassified", win |-> None, frees |-> Freed(m)]
          /\ UNCHANGED conn_event_buffer
     ELSE IF m.win \in DOMAIN conn_event_buffer
     THEN /\ conn_event_buffer' = Push(conn_event_buffer, m.win, Stored(n, m, "create"))
          /\ last_route' = [seq |-> n.seq, disp |-> "mailbox", win |-> m.win, frees |-> Freed(m)]
     ELSE /\ last_route' = [seq |-> n.seq, disp |-> "dropped", win |-> m.win, frees |-> Freed(m)]
          /\ UNCHANGED conn_event_buffer

\* xcb_poll_for_event once
CreateFirst(w) ==
  /\ pc[w] = "c_first"
  /\ IF PolledQueue # << >>
     THEN /\ RouteCreate(Head(PolledQueue))
          /\ queue' = Tail(PolledQueue)
     ELSE /\ queue' = << >>
          /\ UNCHANGED <<last_route, conn_event_buffer>>
  /\ wire' = PolledWire
  /\ pc' = [pc EXCEPT ![w] = "c_queued"]
  /\ UNCHANGED <<conn_pc, conn_result, display, closes, atoms, xinput, hostname,
                 len, host_tries, host_err, user_handle, mutex>>
  /\ UNCHANGED <<xid, handle, win_event_buffer, result, requests>>
  /\ UNCHANGED <<nsent, nfaults, server_windows, shown, returned>>
  /\ UNCHANGED <<xi, fault, pure_vars, ffi_vars>>

\* the xcb_poll_for_queued_event loop
CreateQueued(w) ==
  /\ pc[w] = "c_queued"
  /\ IF queue # << >>
     THEN /\ RouteCreate(Head(queue))
          /\ queue' = Tail(queue)
          /\ UNCHANGED pc
     ELSE /\ pc' = [pc EXCEPT ![w] = "c_create"]
          /\ last_route' = NoRoute
          /\ UNCHANGED <<queue, conn_event_buffer>>
  /\ UNCHANGED <<conn_pc, conn_result, display, closes, atoms, xinput, hostname,
                 len, host_tries, host_err, user_handle, mutex>>
  /\ UNCHANGED <<xid, handle, win_event_buffer, result, requests>>
  /\ UNCHANGED <<wire, nsent, nfaults, server_windows, shown, returned>>
  /\ UNCHANGED <<xi, fault, pure_vars, ffi_vars>>

\* error codes xcb_request_check can report for CreateWindow; None is no error
CreateErrors == {None, 2, 8, XCB_ALLOC}

\* PropertyRequests that writes _NET_WM_PID whether or not the hostname is known
PropertyRequests_PidAlways ==
  (IF FeatureInput THEN {"xi_select_events"} ELSE {})
  \cup {"WM_PROTOCOLS", "_NET_WM_NAME", "WM_NAME", "_NET_WM_PID"}
  \cup (IF hostname # "None" THEN {"WM_CLIENT_MACHINE"} ELSE {})

\* the requests between CreateWindow and MapWindow
PropertyRequests ==
  (IF FeatureInput THEN {"xi_select_events"} ELSE {})
  \cup {"WM_PROTOCOLS", "_NET_WM_NAME", "WM_NAME"}
  \cup (IF hostname # "None" THEN {"_NET_WM_PID", "WM_CLIENT_MACHINE"} ELSE {})

\* CreateError that takes only Match for a bad parameter
CreateError_MatchOnly(errno) == IF errno = 8 THEN "Invalid" ELSE "SystemResources"

\* the error Window::new returns for the error code of a failed CreateWindow
CreateError(errno) == IF errno = XCB_ALLOC THEN "SystemResources" ELSE "Invalid"

\* xcb_create_window_checked and, when it succeeds, the property writes
CreateWindow(w) ==
  /\ pc[w] = "c_create"
  /\ SyncRead
  /\ \E errno \in CreateErrors :
       IF errno # None
       THEN /\ CreateFail(w, CreateError(errno), Fault("create_window", errno, 0))
            /\ requests' = [requests EXCEPT ![w] = {"create_window"}]
            /\ UNCHANGED server_windows
       ELSE /\ pc' = [pc EXCEPT ![w] = "c_map"]
            /\ requests' = [requests EXCEPT ![w] = {"create_window"} \cup PropertyRequests]
            /\ server_windows' = server_windows \cup {xid[w]}
            /\ UNCHANGED <<xid, result, mutex, conn_pc, closes, nfaults, fault>>
  /\ UNCHANGED <<conn_result, display, atoms, xinput, hostname, len, host_tries, host_err,
                 conn_event_buffer, user_handle>>
  /\ UNCHANGED <<handle, win_event_buffer>>
  /\ UNCHANGED <<nsent, hist_vars>>
  /\ UNCHANGED <<xi, pure_vars, ffi_vars>>

\* CheckOrUnknown without the call of Connection::check
CheckOrUnknown_NoCheck(err) == "Unknown"

\* `Connection::check(c)?; return Err(Error::Unknown)`
CheckOrUnknown(err) == IF check(err) # "Ok" THEN check(err) ELSE "Unknown"

\* xcb_map_window_checked
CreateMap(w) ==
  /\ pc[w] = "c_map"
  /\ SyncRead
  /\ requests' = [requests EXCEPT ![w] = @ \cup {"map_window"}]
  /\ \E map_error \in BOOLEAN, err \in ConnErrors :
       IF map_error
       THEN CreateFail(w, CheckOrUnknown(err), Fault("map_window", 1, err))
       ELSE /\ pc' = [pc EXCEPT ![w] = "c_flush"]
            /\ UNCHANGED <<xid, result, mutex, conn_pc, closes, nfaults, fault>>
  /\ UNCHANGED <<conn_result, display, atoms, xinput, hostname, len, host_tries, host_err,
                 conn_event_buffer, user_handle>>
  /\ UNCHANGED <<handle, win_event_buffer>>
  /\ UNCHANGED <<nsent, server_windows, hist_vars>>
  /\ UNCHANGED <<xi, pure_vars, ffi_vars>>

\* Insert that keeps the entry the map already has for k
Insert_KeepExisting(map, k) ==
  [j \in DOMAIN map \cup {k} |-> IF j \in DOMAIN map THEN map[j] ELSE << >>]

\* HashMap::insert(k, Vec::with_capacity(QUEUE_SIZE))
Insert(map, k) ==
  [j \in DOMAIN map \cup {k} |-> IF j = k THEN << >> ELSE map[j]]

\* the mailbox insert, the final flush and the result
CreateFlush(w) ==
  /\ pc[w] = "c_flush"
  /\ conn_event_buffer' = Insert(conn_event_buffer, xid[w])
  /\ requests' = [requests EXCEPT ![w] = @ \cup {"flush"}]
  /\ \E r \in {-1, 0, 1}, err \in ConnErrors :
       IF r <= 0
       THEN /\ CreateFail(w, CheckOrUnknown(err), Fault("flush", r, err))
            /\ UNCHANGED <<handle, win_event_buffer>>
       ELSE /\ pc' = [pc EXCEPT ![w] = "live"]
            /\ handle' = [handle EXCEPT ![w] = xid[w]]
            /\ win_event_buffer' = [win_event_buffer EXCEPT ![w] = << >>]
            /\ xid' = [xid EXCEPT ![w] = None]
            /\ result' = [result EXCEPT ![w] = "Ok"]
            /\ mutex' = None
            /\ UNCHANGED <<conn_pc, closes, nfaults, fault>>
  /\ UNCHANGED <<conn_result, display, atoms, xinput, hostname, len, host_tries, host_err,
                 user_handle>>
  /\ UNCHANGED <<wire, queue, nsent, server_windows, hist_vars>>
  /\ UNCHANGED <<xi, pure_vars, ffi_vars>>

----------------------------------------------------------------------------
(* Window::events and Window::poll_events *)

Seqs(buf) == {buf[i].seq : i \in DOMAIN buf}

\* events() that takes the buffer instead of borrowing it
Events_Take(w) ==
  /\ pc[w] = "live"
  /\ returned' = [returned EXCEPT ![w] = [set |-> TRUE, val |-> win_event_buffer[w]]]
  /\ win_event_buffer' = [win_event_buffer EXCEPT ![w] = << >>]
  /\ UNCHANGED <<conn_vars, pc, xid, handle, result, requests, x_vars, last_route, shown>>
  /\ UNCHANGED <<xi, fault, pure_vars, ffi_vars>>

\* Window::events: a borrow of the local buffer
Events(w) ==
  /\ pc[w] = "live"
  /\ returned' = [returned EXCEPT ![w] = [set |-> TRUE, val |-> win_event_buffer[w]]]
  /\ UNCHANGED <<conn_vars, win_vars, x_vars, last_route, shown>>
  /\ UNCHANGED <<xi, fault, pure_vars, ffi_vars>>

PollLock(w) ==
  /\ pc[w] \in {"live", "p_wait"}
  /\ MutexLock(w)
  /\ pc' = [pc EXCEPT ![w] = "p_swap"]
  /\ returned' = [returned EXCEPT ![w] = Unset]
  /\ UNCHANGED <<conn_pc, conn_result, display, closes, atoms, xinput, hostname,
                 len, host_tries, host_err, conn_event_buffer, user_handle>>
  /\ UNCHANGED <<xid, handle, win_event_buffer, result, requests>>
  /\ UNCHANGED <<x_vars, last_route, shown>>
  /\ UNCHANGED <<xi, pure_vars, ffi_vars>>

\* PollSwap without self.event_buffer.clear()
PollSwap_NoClear(w) ==
  /\ pc[w] = "p_swap"
  /\ shown' = shown \cup Seqs(win_event_buffer[w])
  /\ IF handle[w] \in DOMAIN conn_event_buffer
     THEN /\ win_event_buffer' = [win_event_buffer EXCEPT ![w] = conn_event_buffer[handle[w]]]
          /\ conn_event_buffer' = [conn_event_buffer EXCEPT ![handle[w]] = win_event_buffer[w]]
     ELSE UNCHANGED <<win_event_buffer, conn_event_buffer>>
  /\ pc' = [pc EXCEPT ![w] = "p_first"]
  /\ UNCHANGED <<conn_pc, conn_result, display, closes, atoms, xinput, hostname,
                 len, host_tries, host_err, user_handle, mutex>>
  /\ UNCHANGED <<xid, handle, result, requests>>
  /\ UNCHANGED <<x_vars, last_route, returned>>
  /\ UNCHANGED <<xi, fault, pure_vars, ffi_vars>>

\* self.event_buffer.clear(), then the swap with the mailbox if there is one
PollSwap(w) ==
  /\ pc[w] = "p_swap"
  /\ shown' = shown \cup Seqs(win_event_buffer[w])
  /\ IF handle[w] \in DOMAIN conn_event_buffer
     THEN /\ win_event_buffer' = [win_event_buffer EXCEPT ![w] = conn_event_buffer[handle[w]]]
          /\ conn_event_buffer' = [conn_event_buffer EXCEPT ![handle[w]] = << >>]
     ELSE /\ win_event_buffer' = [win_event_buffer EXCEPT ![w] = << >>]
          /\ UNCHANGED conn_event_buffer
  /\ pc' = [pc EXCEPT ![w] = "p_first"]
  /\ UNCHANGED <<conn_pc, conn_result, display, closes, atoms, xinput, hostname,
                 len, host_tries, host_err, user_handle, mutex>>
  /\ UNCHANGED <<xid, handle, result, requests>>
  /\ UNCHANGED <<x_vars, last_route, returned>>
  /\ UNCHANGED <<xi, fault, pure_vars, ffi_vars>>

\* RoutePoll without the test of the target: everything is pushed locally
RoutePoll_NoTargetCheck(w, n) ==
  LET m == process_event(atoms, xinput, n)
  IN IF m = NoEvent
     THEN /\ last_route' = [seq |-> n.seq, disp |-> "unclassified", win |-> None, frees |-> Freed(m)]
          /\ UNCHANGED <<win_event_buffer, conn_event_buffer>>
     ELSE /\ win_event_buffer' = [win_event_buffer EXCEPT ![w] = Append(@, Stored(n, m, "local"))]
          /\ last_route' = [seq |-> n.seq, disp |-> "local", win |-> m.win, frees |-> Freed(m)]
          /\ UNCHANGED conn_event_buffer

\* RoutePoll without the local shortcut: own events go through the mailbox
RoutePoll_AlwaysMailbox(w, n) ==
  LET m == process_event(atoms, xinput, n)
  IN IF m = NoEvent
     THEN /\ last_route' = [seq |-> n.seq, disp |-> "unclassified", win |-> None, frees |-> Freed(m)]
          /\ UNCHANGED <<win_event_buffer, conn_event_buffer>>
     ELSE IF m.win \in DOMAIN conn_event_buffer
     THEN /\ conn_event_buffer' = Push(conn_event_buffer, m.win, Stored(n, m, "poll"))
          /\ last_route' = [seq |-> n.seq, disp |-> "mailbox", win |-> m.win, frees |-> Freed(m)]
          /\ UNCHANGED win_event_buffer
     ELSE /\ last_route' = [seq |-> n.seq, disp |-> "dropped", win |-> m.win, frees |-> Freed(m)]
          /\ UNCHANGED <<win_event_buffer, conn_event_buffer>>

\* RoutePoll that hands an event for another window to that window's buffer
RoutePoll_Direct(w, n) ==
  LET m == process_event(atoms, xinput, n)
      owners == {v \in Slots : pc[v] = "live" /\ handle[v] = m.win}
  IN IF m = NoEvent
     THEN /\ last_route' = [seq |-> n.seq, disp |-> "unclassified", win |-> None, frees |-> Freed(m)]
          /\ UNCHANGED <<win_event_buffer, conn_event_buffer>>
     ELSE IF m.win = handle[w]
     THEN /\ win_event_buffer' = [win_event_buffer EXCEPT ![w] = Append(@, Stored(n, m, "local"))]
          /\ last_route' = [seq |-> n.seq, disp |-> "local", win |-> m.win, frees |-> Freed(m)]
          /\ UNCHANGED conn_event_buffer
     ELSE IF owners # {}
     THEN /\ win_event_buffer' = [win_event_buffer EXCEPT
                 ![CHOOSE v \in owners : TRUE] = Append(@, Stored(n, m, "poll"))]
          /\ last_route' = [seq |-> n.seq, disp |-> "mailbox", win |-> m.win, frees |-> Freed(m)]
          /\ UNCHANGED conn_event_buffer
     ELSE /\ last_route' = [seq |-> n.seq, disp |-> "dropped", win |-> m.win, frees |-> Freed(m)]
          /\ UNCHANGED <<win_event_buffer, conn_event_buffer>>

\* RoutePoll that puts an own event in front of the local buffer
RoutePoll_PushFront(w, n) ==
  LET m == process_event(atoms, xinput, n)
  IN IF m = NoEvent
     THEN /\ last_route' = [seq |-> n.seq, disp |-> "unclassified", win |-> None, frees |-> Freed(m)]
          /\ UNCHANGED <<win_event_buffer, conn_event_buffer>>
     ELSE IF m.win = handle[w]
     THEN /\ win_event_buffer' = [win_event_buffer EXCEPT ![w] = <<Stored(n, m, "local")>> \o @]
          /\ last_route' = [seq |-> n.seq, disp |-> "local", win |-> m.win, frees |-> Freed(m)]
          /\ UNCHANGED conn_event_buffer
     ELSE IF m.win \in DOMAIN conn_event_buffer
     THEN /\ conn_event_buffer' = Push(conn_event_buffer, m.win, Stored(n, m, "poll"))
          /\ last_route' = [seq |-> n.seq, disp |-> "mailbox", win |-> m.win, frees |-> Freed(m)]
          /\ UNCHANGED win_event_buffer
     ELSE /\ last_route' = [seq |-> n.seq, disp |-> "dropped", win |-> m.win, frees |-> Freed(m)]
          /\ UNCHANGED <<win_event_buffer, conn_event_buffer>>

\* the routing of Window::poll_events
RoutePoll(w, n) ==
  LET m == process_event(atoms, xinput, n)
  IN IF m = NoEvent
     THEN /\ last_route' = [seq |-> n.seq, disp |-> "unclassified", win |-> None, frees |-> Freed(m)]
          /\ UNCHANGED <<win_event_buffer, conn_event_buffer>>
     ELSE IF m.win = handle[w]
     THEN /\ win_event_buffer' = [win_event_buffer EXCEPT ![w] = Append(@, Stored(n, m, "local"))]
          /\ last_route' = [seq |-> n.seq, disp |-> "local", win |-> m.win, frees |-> Freed(m)]
          /\ UNCHANGED conn_event_buffer
     ELSE IF m.win \in DOMAIN conn_event_buffer
     THEN /\ conn_event_buffer' = Push(conn_event_buffer, m.win, Stored(n, m, "poll"))
          /\ last_route' = [seq |-> n.seq, disp |-> "mailbox", win |-> m.win, frees |-> Freed(m)]
          /\ UNCHANGED win_event_buffer
     ELSE /\ last_route' = [seq |-> n.seq, disp |-> "dropped", win |-> m.win, frees |-> Freed(m)]
          /\ UNCHANGED <<win_event_buffer, conn_event_buffer>>

\* xcb_poll_for_event once
PollFirst(w) ==
  /\ pc[w] = "p_first"
  /\ IF PolledQueue # << >>
     THEN /\ RoutePoll(w, Head(PolledQueue))
          /\ queue' = Tail(PolledQueue)
     ELSE /\ queue' = << >>
          /\ UNCHANGED <<last_route, win_event_buffer, conn_event_buffer>>
  /\ wire' = PolledWire
  /\ pc' = [pc EXCEPT ![w] = "p_queued"]
  /\ UNCHANGED <<conn_pc, conn_result, display, closes, atoms, xinput, hostname,
                 len, host_tries, host_err, user_handle, mutex>>
  /\ UNCHANGED <<xid, handle, result, requests>>
  /\ UNCHANGED <<nsent, nfaults, server_windows, shown, returned>>
  /\ UNCHANGED <<xi, fault, pure_vars, ffi_vars>>

\* a loop on xcb_wait_for_event: it blocks for the next record and never
\* sees the end of the queue
PollQueued_Blocking(w) ==
  /\ pc[w] = "p_queued"
  /\ PolledQueue # << >>
  /\ RoutePoll(w, Head(PolledQueue))
  /\ queue' = Tail(PolledQueue)
  /\ wire' = PolledWire
  /\ UNCHANGED <<pc, mutex>>
  /\ UNCHANGED <<conn_pc, conn_result, display, closes, atoms, xinput, hostname,
                 len, host_tries, host_err, user_handle>>
  /\ UNCHANGED <<xid, handle, result, requests>>
  /\ UNCHANGED <<nsent, nfaults, server_windows, shown, returned>>
  /\ UNCHANGED <<xi, fault, pure_vars, ffi_vars>>

\* the xcb_poll_for_queued_event loop; poll_events returns when it ends
PollQueued(w) ==
  /\ pc[w] = "p_queued"
  /\ IF queue # << >>
     THEN /\ RoutePoll(w, Head(queue))
          /\ queue' = Tail(queue)
          /\ UNCHANGED <<pc, mutex>>
     ELSE /\ pc' = [pc EXCEPT ![w] = "live"]
          /\ mutex' = None
          /\ last_route' = NoRoute
          /\ UNCHANGED <<queue, win_event_buffer, conn_event_buffer>>
  /\ UNCHANGED <<conn_pc, conn_result, display, closes, atoms, xinput, hostname,
                 len, host_tries, host_err, user_handle>>
  /\ UNCHANGED <<xid, handle, result, requests>>
  /\ UNCHANGED <<wire, nsent, nfaults, server_windows, shown, returned>>
  /\ UNCHANGED <<xi, fault, pure_vars, ffi_vars>>

----------------------------------------------------------------------------
(* Drop for Window *)

\* Drop for Window that does not take the lock
DropLock_NoMutex(w) ==
  /\ pc[w] \in {"live", "d_wait"}
  /\ pc' = [pc EXCEPT ![w] = "d_destroy"]
  /\ UNCHANGED <<conn_vars>>
  /\ UNCHANGED <<xid, handle, win_event_buffer, result, requests>>
  /\ UNCHANGED <<x_vars, hist_vars>>
  /\ fault' = NoFault
  /\ UNCHANGED <<xi, pure_vars, ffi_vars>>

\* mutex_lock(&self.connection.0)
DropLock(w) ==
  /\ pc[w] \in {"live", "d_wait"}
  /\ MutexLock(w)
  /\ pc' = [pc EXCEPT ![w] = "d_destroy"]
  /\ UNCHANGED <<conn_pc, conn_result, display, closes, atoms, xinput, hostname,
                 len, host_tries, host_err, conn_event_buffer, user_handle>>
  /\ UNCHANGED <<xid, handle, win_event_buffer, result, requests>>
  /\ UNCHANGED <<x_vars, hist_vars>>
  /\ UNCHANGED <<xi, pure_vars, ffi_vars>>

\* xcb_destroy_window(connection.connection, self.handle); the cookie is
\* discarded
DropDestroy(w) ==
  /\ pc[w] = "d_destroy"
  /\ pc' = [pc EXCEPT ![w] = "d_flush"]
  /\ requests' = [requests EXCEPT ![w] = @ \cup {"destroy_window"}]
  /\ UNCHANGED conn_vars
  /\ UNCHANGED <<xid, handle, win_event_buffer, result>>
  /\ UNCHANGED <<x_vars, hist_vars>>
  /\ UNCHANGED <<xi, fault, pure_vars, ffi_vars>>

\* DropFlush that reports a failed flush the way Window::new does
DropFlush_FailureSurfaces(w) ==
  /\ pc[w] = "d_flush"
  /\ \E r \in {-1, 0, 1}, err \in ConnErrors :
       result' = [result EXCEPT ![w] = IF r <= 0 THEN CheckOrUnknown(err) ELSE "none"]
  /\ server_windows' = server_windows \ {handle[w]}
  /\ mutex' = None
  /\ pc' = [pc EXCEPT ![w] = "none"]
  /\ handle' = [handle EXCEPT ![w] = None]
  /\ win_event_buffer' = [win_event_buffer EXCEPT ![w] = << >>]
  /\ requests' = [requests EXCEPT ![w] = {}]
  /\ returned' = [returned EXCEPT ![w] = Unset]
  /\ ReleaseRef(w)
  /\ UNCHANGED <<conn_result, display, atoms, xinput, hostname, len, host_tries, host_err,
                 conn_event_buffer, user_handle>>
  /\ UNCHANGED <<xid, wire, queue, nsent, nfaults, last_route, shown>>
  /\ UNCHANGED <<xi, fault, pure_vars, ffi_vars>>

\* xcb_flush(connection.connection), whose result r is discarded; then the
\* guard and the fields of the Window are dropped.  The server destroys the
\* window when the request reaches it, and with the rest of the client's
\* windows when the connection is lost.
DropFlush(w) ==
  /\ pc[w] = "d_flush"
  /\ \E r \in {-1, 0, 1} :
       result' = [result EXCEPT ![w] = "none"]
  /\ server_windows' = server_windows \ {handle[w]}
  /\ mutex' = None
  /\ pc' = [pc EXCEPT ![w] = "none"]
  /\ handle' = [handle EXCEPT ![w] = None]
  /\ win_event_buffer' = [win_event_buffer EXCEPT ![w] = << >>]
  /\ requests' = [requests EXCEPT ![w] = {}]
  /\ returned' = [returned EXCEPT ![w] = Unset]
  /\ ReleaseRef(w)
  /\ UNCHANGED <<conn_result, display, atoms, xinput, hostname, len, host_tries, host_err,
                 conn_event_buffer, user_handle>>
  /\ UNCHANGED <<xid, wire, queue, nsent, nfaults, last_route, shown>>
  /\ UNCHANGED <<xi, fault, pure_vars, ffi_vars>>

----------------------------------------------------------------------------
(* Specification *)

\* a Connection as Connection::new returns it, with or without a hostname
InitConn ==
  /\ conn_pc = "ready"
  /\ conn_result = "Ok"
  /\ display = TRUE
  /\ closes = 0
  /\ atoms = AtomsNew([i \in 1..N_ATOMS |-> ServerAtom(i)])
  /\ xinput = ServerXiOpcode
  /\ hostname \in {"Some", "None"}
  /\ len = 0
  /\ host_tries = 0
  /\ host_err = IF hostname = "Some" THEN 0 ELSE -1
  /\ conn_event_buffer = << >>
  /\ user_handle = TRUE
  /\ xi = IF FeatureInput THEN "present" ELSE "none"

Init ==
  /\ InitConn
  /\ InitRest
  /\ InitPure
  /\ InitFfi

\* the operations on windows
WindowNext ==
  \/ \E w \in Slots : CreateLock(w)
  \/ \E w \in Slots : CreateId(w)
  \/ \E w \in Slots : CreateFirst(w)
  \/ \E w \in Slots : CreateQueued(w)
  \/ \E w \in Slots : CreateWindow(w)
  \/ \E w \in Slots : CreateMap(w)
  \/ \E w \in Slots : CreateFlush(w)
  \/ \E w \in Slots : PollLock(w)
  \/ \E w \in Slots : PollSwap(w)
  \/ \E w \in Slots : PollFirst(w)
  \/ \E w \in Slots : PollQueued(w)
  \/ \E w \in Slots : DropLock(w)
  \/ \E w \in Slots : DropDestroy(w)
  \/ \E w \in Slots : DropFlush(w)

\* windows and events on an established Connection that the caller keeps
Next ==
  \/ ServerSend
  \/ \E w \in Slots : Events(w)
  \/ WindowNext

Spec == Init /\ [][Next]_vars

\* the life of a Connection: construction, windows, teardown
NextLife ==
  \/ ConnLoad
  \/ ConnOpen
  \/ ConnAtoms
  \/ ConnXi
  \/ ConnHost
  \/ UserDrop
  \/ WindowNext

SpecLife == InitLife /\ [][NextLife]_vars

TypeOK ==
  /\ mutex \in Slots \cup {None}
  /\ closes \in 0..2
  /\ DOMAIN conn_event_buffer \subseteq XIDs
  /\ len \in 0..HOST_LEN_LIMIT
  /\ xi \in {"none", "null", "absent", "present"}
  /\ native_conns \in 0..1
  /\ fault.call \in {"none", "generate_id", "create_window", "map_window", "flush"}

----------------------------------------------------------------------------
(* The drains fed with every kind of native record process_event tells      *)
(* apart: the specification SpecDrain.                                      *)

\* one record of every kind: the two that Spec sends, XInput events of every
\* other type, a generic event of another extension, client messages that
\* miss the close handshake by one field, core events and an error
DrainRecords ==
  {NativeEvent("key", 1, 0), NativeEvent("close", 1, 0)}
  \cup {[NativeEvent("key", 1, 0) EXCEPT !.event_type = t] :
          t \in {1, XCB_INPUT_BUTTON_PRESS, XCB_INPUT_BUTTON_RELEASE, XCB_INPUT_MOTION,
                 XCB_INPUT_ENTER, XCB_INPUT_LEAVE, 11}}
  \cup {[NativeEvent("key", 1, 0) EXCEPT !.extension = ServerXiOpcode + 1]}
  \cup {[NativeEvent("close", 1, 0) EXCEPT !.format = 8],
        [NativeEvent("close", 1, 0) EXCEPT !.type = ServerAtom(3)],
        [NativeEvent("close", 1, 0) EXCEPT !.data0 = ServerAtom(3)]}
  \cup {[NativeEvent("key", 1, 0) EXCEPT !.response_type = r] : r \in {0, 2, 12}}

\* native records the server has sent and no drain has pulled yet, at most
MaxInFlight == 2

\* the server sends a record of any kind
ServerSendAny ==
  /\ conn_pc = "ready"
  /\ nsent < MaxEvents
  /\ Len(queue) + Len(wire) < MaxInFlight
  /\ \E r \in DrainRecords :
       wire' = Append(wire, [r EXCEPT !.seq = nsent + 1])
  /\ nsent' = nsent + 1
  /\ UNCHANGED <<queue, nfaults, server_windows, hist_vars>>
  /\ UNCHANGED <<conn_vars, win_vars>>
  /\ UNCHANGED <<xi, fault, pure_vars, ffi_vars>>

\* Window::new and Window::poll_events on that traffic
NextDrain ==
  \/ ServerSendAny
  \/ \E w \in Slots : CreateLock(w)
  \/ \E w \in Slots : CreateId(w)
  \/ \E w \in Slots : CreateFirst(w)
  \/ \E w \in Slots : CreateQueued(w)
  \/ \E w \in Slots : CreateWindow(w)
  \/ \E w \in Slots : CreateMap(w)
  \/ \E w \in Slots : CreateFlush(w)
  \/ \E w \in Slots : PollLock(w)
  \/ \E w \in Slots : PollSwap(w)
  \/ \E w \in Slots : PollFirst(w)
  \/ \E w \in Slots : PollQueued(w)

SpecDrain == Init /\ [][NextDrain]_vars

----------------------------------------------------------------------------
(* Calls of the functions that read no state of a window: process_event,   *)
(* keysym_to_key and Connection::check, each applied once to arguments     *)
(* drawn from the sets below.                                              *)

\* a native event record; the fields a variant does not have are zero
NativeRecords(rts, formats, types, data0s, windows, exts, ets, flagss, events, syms, syms2) ==
  [seq : {0}, response_type : rts, format : formats, type : types,
   data0 : data0s, window : windows, extension : exts, event_type : ets,
   flags : flagss, event : events, keysym : syms, keysym2 : syms2]

\* xcb_client_message_event_t, with and without the sent-event bit
ClientMessages ==
  NativeRecords({XCB_CLIENT_MESSAGE, XCB_CLIENT_MESSAGE + 128}, {8, 16, 32},
                {ServerAtom(1), ServerAtom(2), ServerAtom(3)},
                {ServerAtom(1), ServerAtom(2), ServerAtom(3)},
                XIDs, {0}, {0}, {0}, {0}, {0}, {0})

\* xcb_ge_generic_event_t of XInput and of another extension
GenericEvents ==
  NativeRecords({XCB_GE_GENERIC, XCB_GE_GENERIC + 128}, {0}, {0}, {0}, {0},
                {ServerXiOpcode, ServerXiOpcode + 1},
                (1..11) \cup {XCB_INPUT_KEY_PRESS + 128},
                {0, 1, XCB_INPUT_KEY_EVENT_FLAGS_KEY_REPEAT,
                 XCB_INPUT_KEY_EVENT_FLAGS_KEY_REPEAT + 1},
                XIDs, {\h61, 0}, {0, \hFFB0})

\* core events and errors, which process_event has no arm for
OtherEvents ==
  NativeRecords({0, 2, 12, 34}, {32}, {ServerAtom(1)}, {ServerAtom(2)}, {1},
                {ServerXiOpcode}, {XCB_INPUT_KEY_PRESS}, {0}, {1}, {\h61}, {0})

\* keysyms on both sides of every arm of keysym_to_key
TableKeys(table) == {table[i][1] : i \in DOMAIN table}
KeysymInputs ==
  TableKeys(BaseKeys) \cup TableKeys(KeypadKeys)
  \cup {0, \h2B, \h41, \h7B, \hFFA9, \hFFBA, \hFFEA}
Keysym2Inputs ==
  TableKeys(KeypadKeys) \cup {0, \h41, \h61, \hFFA9, \hFFBA, \hFFFF}

\* values of xcb_connection_has_error, and one that it never returns
CheckInputs == (-1)..7

PureCalls ==
  {[fn |-> "process_event", ev |-> e, keysym |-> 0, keysym2 |-> 0, err |-> 0] :
     e \in ClientMessages \cup GenericEvents \cup OtherEvents}
  \cup {[fn |-> "keysym_to_key", ev |-> << >>, keysym |-> k, keysym2 |-> k2, err |-> 0] :
          k \in KeysymInputs, k2 \in Keysym2Inputs}
  \cup {[fn |-> "check", ev |-> << >>, keysym |-> 0, keysym2 |-> 0, err |-> e] :
          e \in CheckInputs}

\* process_event(&connection.atoms, &connection.extensions, event, display)
ProcessEvent ==
  /\ call.fn = "process_event"
  /\ ~ret.set
  /\ ret' = [set |-> TRUE, mapping |-> process_event(atoms, xinput, call.ev),
             key |-> "None", res |-> "none"]
  /\ UNCHANGED <<conn_vars, win_vars, x_vars, hist_vars, xi, fault, call, ffi_vars>>

\* keysym_to_key(XLookupKeysym(.., 0), XLookupKeysym(.., 1))
KeysymToKey ==
  /\ call.fn = "keysym_to_key"
  /\ ~ret.set
  /\ ret' = [set |-> TRUE, mapping |-> NoEvent,
             key |-> keysym_to_key(call.keysym, call.keysym2), res |-> "none"]
  /\ UNCHANGED <<conn_vars, win_vars, x_vars, hist_vars, xi, fault, call, ffi_vars>>

\* Connection::check(c)
Check ==
  /\ call.fn = "check"
  /\ ~ret.set
  /\ ret' = [set |-> TRUE, mapping |-> NoEvent, key |-> "None", res |-> check(call.err)]
  /\ UNCHANGED <<conn_vars, win_vars, x_vars, hist_vars, xi, fault, call, ffi_vars>>

InitCalls ==
  /\ InitConn
  /\ InitRest
  /\ InitFfi
  /\ call \in PureCalls
  /\ ret = NoRet

NextPure ==
  \/ ProcessEvent
  \/ KeysymToKey
  \/ Check

SpecPure == InitCalls /\ [][NextPure]_vars

----------------------------------------------------------------------------
(* The capability table of ffi.rs: the lazy statics LIBXCB and XCB,        *)
(* setup(), and the methods of Xcb.  A call on the table is logged with    *)
(* the table's function pointers at that moment, what the call did and the *)
(* number of calls it made through the table's function pointers.          *)

\* calls made on the table during one run
MaxCalls == 2

\* symbols setup() resolves before xcb_connect, and after it
N_SYMBOLS_FIRST == 5
N_SYMBOLS_SECOND == 6

\* Xcb::invalid(): null pointers, every function pointer is do_not_call
XcbInvalid == [connection |-> FALSE, screen |-> FALSE, fns |-> "do_not_call"]
\* the table setup() builds when every step succeeded
XcbValid == [connection |-> TRUE, screen |-> TRUE, fns |-> "native"]

ffi_frame == UNCHANGED <<conn_vars, win_vars, x_vars, hist_vars, xi, fault, pure_vars>>

\* `return t` of setup()
SetupReturn(t) ==
  /\ XCB' = t
  /\ setup_pc' = "done"

\* first use of XCB: LIBXCB is initialised by dlopen("libxcb.so.1")
SetupLib ==
  /\ setup_pc = "unset"
  /\ \E h \in {"null", "lib"} :
       /\ LIBXCB' = h
       /\ IF h = "null"
          THEN SetupReturn(XcbInvalid)
          ELSE setup_pc' = "dlsym_first" /\ UNCHANGED XCB
  /\ UNCHANGED <<native_conns, ffi_log>>
  /\ ffi_frame

\* the dlsym calls of xcb_connect .. xcb_setup_roots_length; missing = 0 when
\* none of them is null
SetupSymbolsFirst ==
  /\ setup_pc = "dlsym_first"
  /\ \E missing \in 0..N_SYMBOLS_FIRST :
       IF missing # 0
       THEN SetupReturn(XcbInvalid)
       ELSE setup_pc' = "connect" /\ UNCHANGED XCB
  /\ UNCHANGED <<LIBXCB, native_conns, ffi_log>>
  /\ ffi_frame

\* xcb_connect(null, null)
SetupConnect ==
  /\ setup_pc = "connect"
  /\ native_conns' = native_conns + 1
  /\ setup_pc' = "roots"
  /\ UNCHANGED <<LIBXCB, XCB, ffi_log>>
  /\ ffi_frame

\* xcb_setup_roots_length and the first screen of the iterator
SetupRoots ==
  /\ setup_pc = "roots"
  /\ \E length \in {0, 1}, screen_is_null \in BOOLEAN :
       IF length <= 0 \/ screen_is_null
       THEN SetupReturn(XcbInvalid)
       ELSE setup_pc' = "dlsym_second" /\ UNCHANGED XCB
  /\ UNCHANGED <<LIBXCB, native_conns, ffi_log>>
  /\ ffi_frame

\* the dlsym calls of xcb_request_check .. xcb_map_window_checked
SetupSymbolsSecond ==
  /\ setup_pc = "dlsym_second"
  /\ \E missing \in 0..N_SYMBOLS_SECOND :
       IF missing # 0
       THEN SetupReturn(XcbInvalid)
       ELSE setup_pc' = "has_error" /\ UNCHANGED XCB
  /\ UNCHANGED <<LIBXCB, native_conns, ffi_log>>
  /\ ffi_frame

\* xcb_connection_has_error(connection) and the table it decides
SetupHasError ==
  /\ setup_pc = "has_error"
  /\ \E err \in ConnErrors :
       IF err <= 0 THEN SetupReturn(XcbValid) ELSE SetupReturn(XcbInvalid)
  /\ UNCHANGED <<LIBXCB, native_conns, ffi_log>>
  /\ ffi_frame

\* a method returned `out` after `through` calls through function pointers
Returned(op, out, through) ==
  /\ ffi_log' = Append(ffi_log, [op |-> op, fns |-> XCB.fns, out |-> out,
                                 through |-> through])
  /\ UNCHANGED setup_pc

\* a method did not return: do_not_call panicked, or a null pointer was read
Aborted(op, out, through) ==
  /\ ffi_log' = Append(ffi_log, [op |-> op, fns |-> XCB.fns, out |-> out,
                                 through |-> through])
  /\ setup_pc' = "aborted"

CanCall ==
  /\ setup_pc = "done"
  /\ Len(ffi_log) < MaxCalls

\* Xcb::is_valid
XcbIsValid ==
  /\ CanCall
  /\ IF ~XCB.connection
     THEN Returned("is_valid", "false", 0)
     ELSE \E err \in ConnErrors :
            Returned("is_valid", IF err <= 0 THEN "true" ELSE "false", 1)
  /\ UNCHANGED <<LIBXCB, XCB, native_conns>>
  /\ ffi_frame

\* Xcb::flush
XcbFlush ==
  /\ CanCall
  /\ IF XCB.fns = "do_not_call"
     THEN Aborted("flush", "panic", 1)
     ELSE \E r \in {-1, 0, 1} :
            Returned("flush", IF r > 0 THEN "Ok" ELSE "Err", 1)
  /\ UNCHANGED <<LIBXCB, XCB, native_conns>>
  /\ ffi_frame

\* Xcb::generate_id
XcbGenerateId ==
  /\ CanCall
  /\ IF XCB.fns = "do_not_call"
     THEN Aborted("generate_id", "panic", 1)
     ELSE \E id \in XIDs \cup {XID_SENTINEL} :
            Returned("generate_id", IF id = XID_SENTINEL THEN "Sentinel" ELSE "Id", 1)
  /\ UNCHANGED <<LIBXCB, XCB, native_conns>>
  /\ ffi_frame

\* Xcb::create_window.  The argument (*self.screen).root is read before the
\* call; with a null screen that read is undefined: the process faults on it,
\* or the read is elided and the call through create_window takes place.
XcbCreateWindow ==
  /\ CanCall
  /\ IF ~XCB.screen
     THEN \/ Aborted("create_window", "fault", 0)
          \/ Aborted("create_window", "panic", 1)
     ELSE \E errno \in CreateErrors :
            Returned("create_window", IF errno = None THEN "Ok" ELSE "Err", 2)
  /\ UNCHANGED <<LIBXCB, XCB, native_conns>>
  /\ ffi_frame

\* Xcb::map_window
XcbMapWindow ==
  /\ CanCall
  /\ IF XCB.fns = "do_not_call"
     THEN Aborted("map_window", "panic", 1)
     ELSE \E map_error \in BOOLEAN :
            Returned("map_window", IF map_error THEN "Err" ELSE "Ok", 2)
  /\ UNCHANGED <<LIBXCB, XCB, native_conns>>
  /\ ffi_frame

\* Drop for Xcb: (self.disconnect)(self.connection)
XcbDrop ==
  /\ setup_pc = "done"
  /\ IF XCB.fns = "do_not_call"
     THEN /\ Aborted("drop", "panic", 1)
          /\ UNCHANGED native_conns
     ELSE /\ ffi_log' = Append(ffi_log, [op |-> "drop", fns |-> XCB.fns,
                                         out |-> "unit", through |-> 1])
          /\ setup_pc' = "dropped"
          /\ native_conns' = native_conns - 1
  /\ UNCHANGED <<LIBXCB, XCB>>
  /\ ffi_frame

NextFfi ==
  \/ SetupLib
  \/ SetupSymbolsFirst
  \/ SetupConnect
  \/ SetupRoots
  \/ SetupSymbolsSecond
  \/ SetupHasError
  \/ XcbIsValid
  \/ XcbFlush
  \/ XcbGenerateId
  \/ XcbCreateWindow
  \/ XcbMapWindow
  \/ XcbDrop

\* the table from its first use on; no Connection of imp.rs exists
SpecFfi == InitLife /\ [][NextFfi]_vars

----------------------------------------------------------------------------
(* Vocabulary of the properties *)

CreatePCs == {"c_id", "c_first", "c_queued", "c_create", "c_map", "c_flush"}
PollPCs == {"p_swap", "p_first", "p_queued"}
DropPCs == {"d_destroy", "d_flush"}
\* positions between mutex_lock and the drop of the guard
CriticalPCs == CreatePCs \cup PollPCs \cup DropPCs
\* positions of a slot whose Window exists (returned by Window::new, not yet dropped)
LivePCs == {"live"} \cup PollPCs \cup DropPCs \cup {"p_wait", "d_wait"}
\* positions of a slot blocked in mutex_lock
WaitPCs == {"c_wait", "p_wait", "d_wait"}

Live == {w \in Slots : pc[w] \in LivePCs}
LiveHandles == {handle[w] : w \in Live}
\* no operation is in progress
Quiescent == \A w \in Slots : pc[w] \in {"none", "live"}

\* a step in which a drain loop classified a native event and routed it
Routed == last_route'.seq # 0 /\ last_route'.seq # last_route.seq
\* the slot whose operation is running
Running == mutex

\* number of places that hold serial s
Copies(s) ==
  Cardinality({i \in DOMAIN wire : wire[i].seq = s})
  + Cardinality({i \in DOMAIN queue : queue[i].seq = s})
  + Cardinality({<<k, i>> \in XIDs \X (1..MaxEvents) :
                   /\ k \in DOMAIN conn_event_buffer
                   /\ i \in DOMAIN conn_event_buffer[k]
                   /\ conn_event_buffer[k][i].seq = s})
  + Cardinality({<<w, i>> \in Slots \X (1..MaxEvents) :
                   /\ i \in DOMAIN win_event_buffer[w]
                   /\ win_event_buffer[w][i].seq = s})

IsPrefix(a, b) == Len(a) <= Len(b) /\ SubSeq(b, 1, Len(a)) = a

----------------------------------------------------------------------------
(* C1: between operations, live windows have pairwise distinct identifiers *)
(* and the keys of the mailbox map are exactly the identifiers of the live *)
(* windows (no entry survives its window).  Stated for the runs in which   *)
(* every Window::new so far succeeded, so that only create and destroy     *)
(* decide it.                                                              *)
C1_MailboxKeysAreLiveWindows ==
  (Quiescent /\ nfaults = 0) =>
    /\ \A w, v \in Live : w # v => handle[w] # handle[v]
    /\ DOMAIN conn_event_buffer = LiveHandles

----------------------------------------------------------------------------
(* C2: an event for live window B that another window's poll or pre-drain  *)
(* pulls is never in a buffer of a window other than B, is appended to B's *)
(* mailbox, is moved whole into B's buffer by B's next poll, stays there   *)
(* until that poll returns, and is held nowhere once a later poll of B has *)
(* cleared it.                                                             *)
C2_Inv ==
  /\ \A w \in Live : \A i \in DOMAIN win_event_buffer[w] :
       win_event_buffer[w][i].win = handle[w]
  /\ \A s \in 1..MaxEvents : Copies(s) <= 1
  /\ \A s \in shown : Copies(s) = 0

C2_Step ==
  /\ \A b \in Live :
       (Routed /\ Running # b /\ last_route'.win = handle[b]) =>
         /\ handle[b] \in DOMAIN conn_event_buffer
         /\ Len(conn_event_buffer'[handle[b]]) = Len(conn_event_buffer[handle[b]]) + 1
         /\ IsPrefix(conn_event_buffer[handle[b]], conn_event_buffer'[handle[b]])
         /\ conn_event_buffer'[handle[b]][Len(conn_event_buffer'[handle[b]])].seq
              = last_route'.seq
         /\ win_event_buffer' = win_event_buffer
  /\ \A b \in Live :
       (pc[b] = "p_swap" /\ pc'[b] = "p_first") =>
         /\ handle[b] \in DOMAIN conn_event_buffer
         /\ win_event_buffer'[b] = conn_event_buffer[handle[b]]
         /\ conn_event_buffer'[handle[b]] = << >>
  /\ \A b \in Live :
       (pc[b] \in {"p_first", "p_queued"}) =>
         IsPrefix(win_event_buffer[b], win_event_buffer'[b])

C2_OtherWindowsEventsGoThroughMailbox == []C2_Inv /\ [][C2_Step]_vars

\* B's poll has returned with an event that A's poll had put into B's mailbox,
\* and A's buffer does not hold it
C2_Witness ==
  \E a, b \in Slots :
    /\ a # b
    /\ pc[a] = "live"
    /\ pc[b] = "live"
    /\ \E i \in DOMAIN win_event_buffer[b] : win_event_buffer[b][i].via = "poll"
    /\ win_event_buffer[a] = << >>

----------------------------------------------------------------------------
(* C3: when the poll of W routes an event whose target is W's identifier,  *)
(* the event is appended to W's buffer and the mailbox map, W's own slot   *)
(* included, is unchanged.                                                 *)
C3_Step ==
  \A w \in Slots :
    (pc[w] \in {"p_first", "p_queued"} /\ Routed /\ last_route'.win = handle[w]) =>
      /\ Len(win_event_buffer'[w]) = Len(win_event_buffer[w]) + 1
      /\ IsPrefix(win_event_buffer[w], win_event_buffer'[w])
      /\ win_event_buffer'[w][Len(win_event_buffer'[w])].seq = last_route'.seq
      /\ conn_event_buffer' = conn_event_buffer

C3_OwnEventsGoToLocalBuffer == [][C3_Step]_vars

\* a poll has just put an event for its own window into the local buffer,
\* and that window has a mailbox slot
C3_Witness ==
  \E w \in Slots :
    /\ pc[w] = "p_queued"
    /\ last_route.disp = "local"
    /\ last_route.win = handle[w]
    /\ handle[w] \in DOMAIN conn_event_buffer
    /\ win_event_buffer[w] # << >>

----------------------------------------------------------------------------
(* C4: routing a classified event whose target is not the identifier of a  *)
(* live window changes the length of no mailbox and of no local buffer.    *)
(* Stated for the runs in which every Window::new so far succeeded.        *)
C4_Step ==
  (/\ Routed
   /\ nfaults = 0
   /\ last_route'.disp # "unclassified"
   /\ last_route'.win \notin LiveHandles) =>
    /\ DOMAIN conn_event_buffer' = DOMAIN conn_event_buffer
    /\ \A k \in DOMAIN conn_event_buffer :
         Len(conn_event_buffer'[k]) = Len(conn_event_buffer[k])
    /\ \A w \in Slots : Len(win_event_buffer'[w]) = Len(win_event_buffer[w])

C4_EventsForNoWindowAreDropped == [][C4_Step]_vars

----------------------------------------------------------------------------
(* C5: a call of events() changes nothing, and every call of events() on a *)
(* window between two of its polls returns the same sequence.              *)
C5_Inv ==
  \A w \in Slots :
    (pc[w] = "live" /\ returned[w].set) => returned[w].val = win_event_buffer[w]

C5_Step ==
  \A w \in Slots :
    (pc[w] = "live" /\ pc'[w] = "live" /\ returned'[w] # returned[w]) =>
      UNCHANGED <<conn_vars, win_vars, x_vars>>

C5_EventsIsStableBetweenPolls == []C5_Inv /\ [][C5_Step]_vars

\* events() has returned a non-empty sequence and another window is polling
C5_Witness ==
  \E w, v \in Slots :
    /\ w # v
    /\ pc[w] = "live"
    /\ returned[w].set
    /\ Len(returned[w].val) > 0
    /\ pc[v] = "p_queued"
    /\ last_route.disp # "none"

----------------------------------------------------------------------------
(* C6: an event that was in a window's buffer when a poll of that window   *)
(* began is in no window's buffer afterwards.                              *)
C6_PollReplacesEvents ==
  \A w \in Slots : Seqs(win_event_buffer[w]) \cap shown = {}

\* a poll has returned with a new event after an earlier event was replaced
C6_Witness ==
  \E w \in Slots :
    /\ pc[w] = "live"
    /\ shown # {}
    /\ win_event_buffer[w] # << >>

----------------------------------------------------------------------------
(* C7: at most one slot is between mutex_lock and the drop of its guard,   *)
(* that slot holds the mutex, nobody else does, and the mailbox map, the   *)
(* native queue and the server's windows change only in steps of the slot  *)
(* that holds the mutex.                                                   *)
C7_Inv ==
  /\ \A w \in Slots : pc[w] \in CriticalPCs => mutex = w
  /\ mutex # None => pc[mutex] \in CriticalPCs
  /\ Cardinality({w \in Slots : pc[w] \in CriticalPCs}) <= 1

C7_Step ==
  (\/ conn_event_buffer' # conn_event_buffer
   \/ queue' # queue
   \/ server_windows' # server_windows) =>
    /\ mutex # None
    /\ pc'[mutex] # pc[mutex] \/ last_route' # last_route

C7_ConnectionLockIsExclusive == []C7_Inv /\ [][C7_Step]_vars

\* one window is inside its poll while another window exists and is idle
C7_Witness ==
  \E w, v \in Slots :
    /\ w # v
    /\ pc[w] \in PollPCs
    /\ mutex = w
    /\ pc[v] = "live"

----------------------------------------------------------------------------
(* C8: no step taken while a window exists and is outside its own poll     *)
(* changes that window's local buffer.                                     *)
C8_Step ==
  \A w \in Slots :
    (pc[w] \in LivePCs \ PollPCs /\ pc'[w] \in LivePCs) =>
      win_event_buffer'[w] = win_event_buffer[w]

C8_BufferChangesOnlyInOwnPoll == [][C8_Step]_vars

\* another slot has just routed an event while this window, idle, holds events
C8_Witness ==
  \E w, v \in Slots :
    /\ w # v
    /\ pc[w] = "live"
    /\ win_event_buffer[w] # << >>
    /\ mutex = v
    /\ last_route.disp \in {"mailbox", "dropped"}

----------------------------------------------------------------------------
(* C9: the Connection is dropped at most once, only when no slot owns a    *)
(* handle to it and the caller has dropped its own, and no window          *)
(* operation takes a step once it is dropped.                              *)
C9_Inv ==
  /\ closes <= 1
  /\ conn_pc = "closed" => (Holders = {} /\ ~user_handle /\ closes = 1)
  /\ closes = 1 => conn_pc = "closed"

C9_Step ==
  conn_pc = "closed" => UNCHANGED <<win_vars, mutex, conn_event_buffer, server_windows>>

C9_TeardownAfterLastWindow == []C9_Inv /\ [][C9_Step]_vars

\* the Connection has been dropped after a window was created on it
C9_Witness ==
  /\ conn_pc = "closed"
  /\ closes = 1
  /\ DOMAIN conn_event_buffer # {}

----------------------------------------------------------------------------
(* C10: once the display handle is non-null and nothing owns it any more   *)
(* (Connection::new returned an error, or the Connection was dropped), it  *)
(* has been closed exactly once; it is never closed twice.                 *)
C10_DisplayClosedExactlyOnce ==
  /\ closes <= 1
  /\ (display /\ conn_pc \in {"failed", "closed"}) => closes = 1

----------------------------------------------------------------------------
(* C11: process_event maps a client message to CloseRequest(SystemMenu)    *)
(* for the message's window exactly when its format is 32, its type is the *)
(* cached WM_PROTOCOLS atom and its first data word is the cached          *)
(* WM_DELETE_WINDOW atom; in every other case it maps it to no event.      *)
C11_CloseRequestIffHandshake ==
  (/\ call.fn = "process_event"
   /\ ret.set
   /\ ClearBit7(call.ev.response_type) = XCB_CLIENT_MESSAGE) =>
    IF /\ call.ev.format = 32
       /\ call.ev.type = atoms.wm_protocols
       /\ call.ev.data0 = atoms.wm_delete_window
    THEN ret.mapping = [ev |-> "CloseRequest", key |-> "SystemMenu",
                        win |-> call.ev.window]
    ELSE ret.mapping = NoEvent

\* a close handshake with the sent-event bit set has been classified
C11_Witness ==
  /\ call.fn = "process_event"
  /\ ret.set
  /\ call.ev.response_type = XCB_CLIENT_MESSAGE + 128
  /\ call.ev.window = 2
  /\ ret.mapping.ev = "CloseRequest"
  /\ ret.mapping.win = 2

----------------------------------------------------------------------------
(* C12: the requests of every Window::new contain the _NET_WM_PID write    *)
(* and the WM_CLIENT_MACHINE write both or neither, and once the property  *)
(* writes are issued they contain both exactly when the Connection has a   *)
(* hostname.                                                               *)
C12_PidAndClientMachineTogether ==
  \A w \in Slots :
    /\ ("_NET_WM_PID" \in requests[w]) <=> ("WM_CLIENT_MACHINE" \in requests[w])
    /\ (pc[w] \in {"c_map", "c_flush", "live"}) =>
         (("_NET_WM_PID" \in requests[w]) <=> (hostname = "Some"))

\* a window exists whose creation wrote both properties
C12_Witness ==
  \E w \in Slots :
    /\ pc[w] = "live"
    /\ hostname = "Some"
    /\ {"_NET_WM_PID", "WM_CLIENT_MACHINE"} \subseteq requests[w]

----------------------------------------------------------------------------
(* C13: no iteration of the hostname loop makes Connection::new fail; when *)
(* the loop gives up, Connection::new returns Ok with hostname None, and   *)
(* no Window::new on that Connection writes _NET_WM_PID or                 *)
(* WM_CLIENT_MACHINE.                                                      *)
C13_Inv ==
  (conn_pc \in {"ready", "closed"} /\ hostname = "None") =>
    /\ conn_result = "Ok"
    /\ \A w \in Slots :
         requests[w] \cap {"_NET_WM_PID", "WM_CLIENT_MACHINE"} = {}

C13_Step ==
  conn_pc = "host" =>
    /\ conn_pc' \in {"host", "ready"}
    /\ conn_pc' = "ready" => conn_result' = "Ok"

C13_NoHostnameIsNotAnError == []C13_Inv /\ [][C13_Step]_vars

\* a window was created successfully on a Connection without a hostname
C13_Witness ==
  /\ conn_pc = "ready"
  /\ hostname = "None"
  /\ \E w \in Slots :
       /\ pc[w] = "live"
       /\ result[w] = "Ok"
       /\ "create_window" \in requests[w]

----------------------------------------------------------------------------
(* C14: keysym_to_key maps base keysym 0x61 to A whatever the shifted      *)
(* keysym is; a base keysym with an arm of its own to the key of that arm, *)
(* never to a keypad key; a base keysym without one to the keypad key of   *)
(* the shifted keysym when that is in 0xFFAA..0xFFB9 (0xFFB0 is Keypad0),  *)
(* and to no key otherwise.                                                *)
C14_Keypad ==
  <<"KeypadMultiply", "KeypadAdd", "KeypadSeparator", "KeypadSubtract",
    "KeypadDecimal", "KeypadDivide", "Keypad0", "Keypad1", "Keypad2",
    "Keypad3", "Keypad4", "Keypad5", "Keypad6", "Keypad7", "Keypad8",
    "Keypad9">>

C14_KeysymClassification ==
  (call.fn = "keysym_to_key" /\ ret.set) =>
    LET base == call.keysym
        shifted == call.keysym2
        mapped == base \in TableKeys(BaseKeys)
        keypad == {C14_Keypad[i] : i \in DOMAIN C14_Keypad}
    IN /\ base = \h61 => ret.key = "A"
       /\ mapped => ret.key \notin keypad \cup {"None"}
       /\ (~mapped /\ shifted = \hFFB0) => ret.key = "Keypad0"
       /\ (~mapped /\ shifted \in \hFFAA..\hFFB9) =>
            ret.key = C14_Keypad[shifted - \hFFAA + 1]
       /\ (~mapped /\ shifted \notin \hFFAA..\hFFB9) => ret.key = "None"

\* base keysym 0x61 was classified together with the shifted keysym of Keypad0
C14_Witness ==
  /\ call.fn = "keysym_to_key"
  /\ ret.set
  /\ call.keysym = \h61
  /\ call.keysym2 = \hFFB0
  /\ ret.key = "A"

----------------------------------------------------------------------------
(* C15: every call made on a table whose function pointers are those of    *)
(* Xcb::invalid() returns a failure value (false, Err, the failure         *)
(* identifier) and makes no call through a function pointer of the table;  *)
(* none panics or faults.                                                  *)
C15_InvalidTableCallsReturnErrors ==
  \A i \in DOMAIN ffi_log :
    ffi_log[i].fns = "do_not_call" =>
      /\ ffi_log[i].out \in {"false", "Err", "Sentinel"}
      /\ ffi_log[i].through = 0

----------------------------------------------------------------------------
(* C16: Connection::check returns Ok for code 0, Unsupported for the       *)
(* "extension not supported" code, SystemResources for the "insufficient   *)
(* memory" code and Invalid for every other code.                          *)
C16_CheckMapping ==
  (call.fn = "check" /\ ret.set) =>
    /\ ret.res \in {"Ok", "Unsupported", "SystemResources", "Invalid"}
    /\ ret.res = "Ok" <=> call.err = 0
    /\ ret.res = "Unsupported" <=> call.err = XCB_CONN_CLOSED_EXT_NOTSUPPORTED
    /\ ret.res = "SystemResources" <=> call.err = XCB_CONN_CLOSED_MEM_INSUFFICIENT
    /\ ret.res = "Invalid" <=>
         call.err \notin {0, XCB_CONN_CLOSED_EXT_NOTSUPPORTED,
                          XCB_CONN_CLOSED_MEM_INSUFFICIENT}

\* the "insufficient memory" code has been mapped
C16_Witness ==
  /\ call.fn = "check"
  /\ ret.set
  /\ call.err = XCB_CONN_CLOSED_MEM_INSUFFICIENT
  /\ ret.res = "SystemResources"

----------------------------------------------------------------------------
(* C17 as claimed: with the input feature compiled in, whenever the        *)
(* XInputExtension query did not return a reply that says the extension is *)
(* present, Connection::new has failed with Unsupported.                   *)
C17_XiNotPresentIsUnsupported ==
  (FeatureInput /\ xi \in {"null", "absent"}) =>
    /\ conn_pc = "failed"
    /\ conn_result = "Unsupported"

(* C17 as amended: with the input feature compiled in, Connection::new     *)
(* fails with Unsupported when the reply to the XInputExtension query says *)
(* the extension is absent and with SystemResources when there is no       *)
(* reply; it goes past the query only with a reply that says the extension *)
(* is present, whose opcode it caches.                                     *)
C17_XiAbsentIsUnsupported ==
  FeatureInput =>
    /\ xi = "absent" => (conn_pc = "failed" /\ conn_result = "Unsupported")
    /\ xi = "null" => (conn_pc = "failed" /\ conn_result = "SystemResources")
    /\ conn_pc \in {"host", "ready", "closed"} =>
         (xi = "present" /\ xinput = ServerXiOpcode)

\* the server replied that the extension is absent
C17_Witness ==
  /\ xi = "absent"
  /\ conn_pc = "failed"
  /\ conn_result = "Unsupported"
  /\ ~user_handle

----------------------------------------------------------------------------
(* C18: Connection::new goes past Atoms::new only with all six atoms       *)
(* interned, each cached atom being the server's atom for the name of its  *)
(* position (WM_PROTOCOLS, WM_DELETE_WINDOW, _NET_WM_NAME, UTF8_STRING,    *)
(* _NET_WM_PID, WM_CLIENT_MACHINE); a failure of Atoms::new makes          *)
(* Connection::new return SystemResources.                                 *)
C18_Inv ==
  conn_pc \in {"xi", "host", "ready", "closed"} =>
    /\ atoms.wm_protocols = ServerAtom(1)
    /\ atoms.wm_delete_window = ServerAtom(2)
    /\ atoms._net_wm_name = ServerAtom(3)
    /\ atoms.utf8_string = ServerAtom(4)
    /\ atoms._net_wm_pid = ServerAtom(5)
    /\ atoms.wm_client_machine = ServerAtom(6)

C18_Step ==
  (conn_pc = "atoms" /\ conn_pc' = "failed") =>
    /\ conn_result' = "SystemResources"
    /\ atoms' = NoAtoms

C18_AllSixAtomsOrNoConnection == []C18_Inv /\ [][C18_Step]_vars

\* a Connection was returned, with its six atoms
C18_Witness ==
  /\ conn_pc = "ready"
  /\ conn_result = "Ok"
  /\ atoms.wm_client_machine = ServerAtom(6)
  /\ atoms.wm_protocols = ServerAtom(1)

----------------------------------------------------------------------------
(* C19: Drop for Window, holding the mutex, issues the destroy-window      *)
(* request and then the flush, and whatever the flush returns it ends the  *)
(* same way: the mutex is released, the window is gone and no error is     *)
(* recorded.                                                               *)
C19_Inv ==
  \A w \in Slots :
    /\ pc[w] \in DropPCs => mutex = w
    /\ pc[w] = "d_destroy" => "destroy_window" \notin requests[w]
    /\ pc[w] = "d_flush" => "destroy_window" \in requests[w]

C19_Step ==
  \A w \in Slots :
    /\ (pc[w] = "d_destroy" /\ pc'[w] # pc[w]) => pc'[w] = "d_flush"
    /\ (pc[w] = "d_flush" /\ pc'[w] # pc[w]) =>
         /\ pc'[w] = "none"
         /\ result'[w] = "none"
         /\ mutex' = None
         /\ handle'[w] = None
         /\ handle[w] \notin server_windows'
         /\ nfaults' = nfaults

C19_DestructionNeverFails == []C19_Inv /\ [][C19_Step]_vars

\* a window that was created without any failure has been destroyed
C19_Witness ==
  /\ nfaults = 0
  /\ DOMAIN conn_event_buffer # {}
  /\ server_windows = {}
  /\ mutex = None
  /\ \A w \in Slots : pc[w] = "none" /\ result[w] = "none"

----------------------------------------------------------------------------
(* C20: the pre-drain of Window::new empties the native queue before the   *)
(* window is created, puts nothing into a local buffer, and puts an event  *)
(* for the new identifier only into the entry the mailbox map already has  *)
(* for that identifier; when Window::new succeeds, the new window's        *)
(* mailbox and local buffer are both empty, whatever that entry held.      *)
C20_Inv ==
  \A w \in Slots : pc[w] = "c_create" => queue = << >>

C20_Step ==
  \A w \in Slots :
    /\ pc[w] \in {"c_first", "c_queued"} => win_event_buffer' = win_event_buffer
    /\ (pc[w] \in {"c_first", "c_queued"} /\ Routed /\ last_route'.win = xid[w]) =>
         /\ DOMAIN conn_event_buffer' = DOMAIN conn_event_buffer
         /\ \A k \in DOMAIN conn_event_buffer :
              k # xid[w] => conn_event_buffer'[k] = conn_event_buffer[k]
    /\ (pc[w] = "c_flush" /\ pc'[w] = "live") =>
         /\ handle'[w] = xid[w]
         /\ handle'[w] \in DOMAIN conn_event_buffer'
         /\ conn_event_buffer'[handle'[w]] = << >>
         /\ win_event_buffer'[w] = << >>

C20_StaleEventsAreNotDelivered == []C20_Inv /\ [][C20_Step]_vars

\* Window::new is about to insert the mailbox of an identifier whose old
\* entry holds an event that its own pre-drain put there
C20_Witness ==
  \E w \in Slots :
    /\ pc[w] = "c_flush"
    /\ xid[w] \in DOMAIN conn_event_buffer
    /\ \E i \in DOMAIN conn_event_buffer[xid[w]] :
         /\ conn_event_buffer[xid[w]][i].via = "create"
         /\ conn_event_buffer[xid[w]][i].win = xid[w]

----------------------------------------------------------------------------
(* C21: what a poll leaves in the window's buffer and in its mailbox *)

\* the native record a drain step of slot w pulls, as a sequence of at most one
Pulled(w) ==
  LET q == IF pc[w] \in {"p_first", "c_first"} THEN PolledQueue ELSE queue
  IN IF pc[w] \in {"p_first", "p_queued", "c_first", "c_queued"} /\ q # << >>
     THEN <<Head(q)>>
     ELSE << >>

\* the events of the records in s that target identifier k, as a poll stores them
Targeting(s, k) ==
  LET m == process_event(atoms, xinput, s[1])
  IN IF s # << >> /\ m # NoEvent /\ m.win = k
     THEN <<Stored(s[1], m, "local")>>
     ELSE << >>

C21_Inv ==
  \A w \in Slots :
    pc[w] \in {"p_first", "p_queued"} /\ handle[w] \in DOMAIN conn_event_buffer =>
      /\ conn_event_buffer[handle[w]] = << >>
      /\ Seqs(win_event_buffer[w]) \cap shown = {}
      /\ \A i, j \in DOMAIN win_event_buffer[w] :
           i < j /\ win_event_buffer[w][i].via = "local" =>
             /\ win_event_buffer[w][j].via = "local"
             /\ win_event_buffer[w][i].seq < win_event_buffer[w][j].seq

C21_Step ==
  \A w \in Slots :
    handle[w] \in DOMAIN conn_event_buffer =>
      /\ pc[w] = "p_swap" /\ pc'[w] = "p_first" =>
           /\ win_event_buffer'[w] = conn_event_buffer[handle[w]]
           /\ conn_event_buffer'[handle[w]] = << >>
      /\ pc[w] \in {"p_first", "p_queued"} /\ (pc'[w] # pc[w] \/ queue' # queue) =>
           /\ win_event_buffer'[w] = win_event_buffer[w] \o Targeting(Pulled(w), handle[w])
           /\ conn_event_buffer'[handle[w]] = << >>
           /\ Seqs(win_event_buffer'[w]) \cap shown' = {}

\* C21: when a poll of a window that has a mailbox slot returns, the mailbox
\* is empty and the local buffer is the mailbox contents from before the poll
\* followed by the events for the window that the poll pulled, in pull order;
\* nothing of the previous local contents is left in either
C21_PollLeavesMailboxThenPulled == []C21_Inv /\ [][C21_Step]_vars

\* a poll has returned with an event from the mailbox followed by one it pulled
C21_Witness ==
  \E w \in Slots :
    /\ pc[w] = "live"
    /\ last_route = NoRoute
    /\ Len(win_event_buffer[w]) = 2
    /\ win_event_buffer[w][1].via = "poll"
    /\ win_event_buffer[w][2].via = "local"
    /\ conn_event_buffer[handle[w]] = << >>

----------------------------------------------------------------------------
(* C22: per-window FIFO delivery *)

\* serials grow along s: the records were pulled in this order
InPullOrder(s) == \A i, j \in DOMAIN s : i < j => s[i].seq < s[j].seq

\* what events() of slot w will show, now and after its next polls: the local
\* buffer, then the mailbox
Pending(w) ==
  win_event_buffer[w] \o
    (IF handle[w] \in DOMAIN conn_event_buffer THEN conn_event_buffer[handle[w]] ELSE << >>)

\* C22: two events for the same live window are observed by its events() in
\* the order in which they were pulled from the native queue, by whichever
\* poll or pre-drain: the earlier one no later than the later one, and before
\* it inside one sequence
C22_PerWindowFifo ==
  /\ InPullOrder(queue \o wire)
  /\ \A w \in Live :
       /\ InPullOrder(Pending(w))
       /\ \A i \in DOMAIN Pending(w) : Pending(w)[i].win = handle[w]
       /\ \A i \in DOMAIN Pending(w), j \in DOMAIN (queue \o wire) :
            Pending(w)[i].seq < (queue \o wire)[j].seq
       /\ \A s \in shown : \A i \in DOMAIN Pending(w) : Pending(w)[i].seq # s

\* events() has shown two events that both went through the mailbox
C22_Witness ==
  \E w \in Slots :
    /\ pc[w] = "live"
    /\ returned[w].set
    /\ Len(returned[w].val) = 2
    /\ returned[w].val[1].via # "local"
    /\ returned[w].val[2].via # "local"
    /\ returned[w].val[1].seq < returned[w].val[2].seq

----------------------------------------------------------------------------
(* C23: a create that fails leaves the keys of the mailbox map alone *)

\* no step of a create that does not return a window changes the key set
C23_Step ==
  \A w \in Slots :
    pc[w] \in CreatePCs /\ pc'[w] # "live" =>
      DOMAIN conn_event_buffer' = DOMAIN conn_event_buffer

\* C23: a create that returns an error, at whichever step, leaves the key set
\* of the mailbox map as it was before the call
C23_FailedCreateLeavesKeys == [][C23_Step]_vars

----------------------------------------------------------------------------
(* C24: xcb_generate_id returns the sentinel *)

C24_Inv == \A w \in Slots : xid[w] # XID_SENTINEL /\ handle[w] # XID_SENTINEL

C24_Step ==
  \A w \in Slots :
    pc[w] = "c_id" /\ pc'[w] # "c_id" =>
      /\ pc'[w] = "c_first" => xid'[w] \in XIDs /\ fault' = NoFault
      /\ pc'[w] # "c_first" =>
           /\ fault' = Fault("generate_id", XID_SENTINEL, 0)
           /\ pc'[w] = "none"
           /\ result'[w] = "SystemResources"
           /\ mutex' = None
           /\ queue' = queue /\ wire' = wire /\ last_route' = last_route
           /\ requests'[w] = {}
           /\ server_windows' = server_windows
           /\ conn_event_buffer' = conn_event_buffer
           /\ win_event_buffer' = win_event_buffer

\* C24: when identifier generation returns the all-ones sentinel, create
\* returns SystemResources at once: it consumes no native event, issues no
\* request and leaves the mailbox map as it was
C24_SentinelIsSystemResources == []C24_Inv /\ [][C24_Step]_vars

\* a create has failed on the sentinel while a native event was waiting
C24_Witness ==
  /\ fault = Fault("generate_id", XID_SENTINEL, 0)
  /\ queue \o wire # << >>
  /\ \E w \in Slots :
       pc[w] = "none" /\ result[w] = "SystemResources" /\ requests[w] = {}

----------------------------------------------------------------------------
(* C25: the checked CreateWindow reports an error *)

C25_Step ==
  \A w \in Slots :
    pc[w] = "c_create" /\ pc'[w] # "c_create" =>
      /\ pc'[w] \in {"c_map", "none"}
      /\ pc'[w] = "c_map" => fault' = NoFault
      /\ pc'[w] = "none" =>
           /\ fault'.call = "create_window"
           /\ fault'.code # None
           /\ fault'.code = XCB_ALLOC => result'[w] = "SystemResources"
           /\ fault'.code # XCB_ALLOC => result'[w] = "Invalid"
           /\ requests'[w] = {"create_window"}
           /\ conn_event_buffer' = conn_event_buffer
           /\ server_windows' = server_windows
           /\ mutex' = None

\* C25: when the checked CreateWindow reports a protocol error, create
\* returns SystemResources for the allocation-failure code and Invalid for any
\* other code, and performs none of the later steps: no event selection, no
\* property write, no map, no mailbox insert, no flush
C25_CreateWindowErrors == [][C25_Step]_vars

\* a create has failed on a CreateWindow error other than Alloc
C25_Witness ==
  /\ fault.call = "create_window"
  /\ fault.code \notin {None, XCB_ALLOC}
  /\ \E w \in Slots :
       /\ pc[w] = "none"
       /\ result[w] = "Invalid"
       /\ requests[w] = {"create_window"}
       /\ DOMAIN conn_event_buffer = {}

----------------------------------------------------------------------------
(* C26: the checked MapWindow fails, or the final flush does *)

C26_Step ==
  \A w \in Slots :
    pc[w] \in {"c_map", "c_flush"} /\ pc'[w] # pc[w] =>
      /\ pc'[w] \in {"c_flush", "live"} => fault' = NoFault
      /\ pc'[w] \notin {"c_flush", "live"} =>
           /\ pc'[w] = "none"
           /\ handle'[w] = None
           /\ fault'.call = IF pc[w] = "c_map" THEN "map_window" ELSE "flush"
           /\ pc[w] = "c_flush" => fault'.code <= 0
           /\ result'[w] \in {"Unsupported", "SystemResources", "Invalid", "Unknown"}
           /\ check(fault'.err) # "Ok" => result'[w] = check(fault'.err)
           /\ check(fault'.err) = "Ok" => result'[w] = "Unknown"
           /\ mutex' = None

\* C26: when the checked MapWindow fails or the final flush returns a
\* non-positive value, create returns no window: it returns the error of the
\* connection-validity check when that reports one, and Unknown when the check
\* says the connection is fine
C26_MapOrFlushFailure == [][C26_Step]_vars

\* a create has failed at the flush on a connection that lost an extension
C26_Witness ==
  /\ fault = Fault("flush", 0, XCB_CONN_CLOSED_EXT_NOTSUPPORTED)
  /\ \E w \in Slots :
       /\ pc[w] = "none"
       /\ result[w] = "Unsupported"
       /\ "flush" \in requests[w]

----------------------------------------------------------------------------
(* C27: a poll of a window that has no mailbox slot.  Window::new inserts   *)
(* the slot before it returns the Window and nothing removes a slot, so     *)
(* the `else` of PollSwap is never taken.                                   *)

\* every window that exists has a mailbox slot
LiveWindowsHaveSlots == \A w \in Live : handle[w] \in DOMAIN conn_event_buffer

----------------------------------------------------------------------------
(* C28: the native records process_event has no event for *)

\* the record is none of: the close handshake, an XInput key event, an XInput
\* focus event
Unhandled(n) ==
  LET rt == ClearBit7(n.response_type)
      et == ClearBit7(n.event_type)
  IN \/ rt \notin {XCB_CLIENT_MESSAGE, XCB_GE_GENERIC}
     \/ /\ rt = XCB_CLIENT_MESSAGE
        /\ ~(n.format = 32 /\ n.type = atoms.wm_protocols /\ n.data0 = atoms.wm_delete_window)
     \/ /\ rt = XCB_GE_GENERIC
        /\ n.extension # xinput
     \/ /\ rt = XCB_GE_GENERIC
        /\ n.extension = xinput
        /\ et \notin {XCB_INPUT_KEY_PRESS, XCB_INPUT_KEY_RELEASE,
                      XCB_INPUT_FOCUS_IN, XCB_INPUT_FOCUS_OUT}

\* the serials still in the native queue or on the socket
InFlight == Seqs(queue \o wire)

C28_Step ==
  \A w \in Slots :
    /\ Pulled(w) # << >>
    /\ pc'[w] # pc[w] \/ queue' # queue
    /\ Unhandled(Pulled(w)[1])
    => /\ Pulled(w)[1].seq \in InFlight
       /\ Pulled(w)[1].seq \notin InFlight'
       /\ win_event_buffer' = win_event_buffer
       /\ conn_event_buffer' = conn_event_buffer
       /\ last_route'.seq = Pulled(w)[1].seq
       /\ last_route'.disp = "unclassified"
       /\ result' = result
       /\ fault' = fault
       /\ pc'[w] \in {"c_queued", "p_queued"}

\* C28: XInput button, motion, enter and leave events, generic events of
\* another extension, client messages that are not the close handshake and
\* native events of any other type are taken off the native queue and yield
\* no event and no error: no buffer and no mailbox changes
C28_UnhandledRecordsAreDropped == [][C28_Step]_vars

\* a poll has just dropped a record while the window's buffer held an event
C28_Witness ==
  /\ last_route.disp = "unclassified"
  /\ \E w \in Slots :
       /\ pc[w] = "p_queued"
       /\ mutex = w
       /\ win_event_buffer[w] # << >>

----------------------------------------------------------------------------
(* C29: every native record a drain pulls is freed once *)

C29_Inv ==
  /\ InPullOrder(queue \o wire)
  /\ last_route.seq \notin InFlight
  /\ last_route.seq # 0 => last_route.frees = 1

C29_Step ==
  /\ \A s \in InFlight \ InFlight' :
       /\ Routed
       /\ last_route'.seq = s
       /\ mutex # None
       /\ Pulled(mutex) # << >>
       /\ Pulled(mutex)[1].seq = s
       /\ last_route'.frees = 1
  /\ Routed => last_route'.seq \in InFlight \ InFlight'
  /\ \A w \in Slots :
       \/ pc[w] = "c_queued" /\ pc'[w] = "c_create"
       \/ pc[w] = "p_queued" /\ pc'[w] = "live"
       => queue' = << >>

\* C29: every native record pulled from the native queue, by a poll or by the
\* pre-drain of a create, is freed exactly once by process_event, whether it
\* is classified, unclassifiable, or classified and dropped for want of a
\* mailbox; none is freed twice and none is left unfreed when the operation
\* returns
C29_PulledRecordsAreFreedOnce == []C29_Inv /\ [][C29_Step]_vars

\* a key event for a window that does not exist has been classified, dropped
\* and freed
C29_Witness ==
  /\ last_route.disp = "dropped"
  /\ last_route.frees = 1
  /\ last_route.seq \notin InFlight
  /\ queue # << >>

----------------------------------------------------------------------------
(* C30: the three kinds of key event *)

\* the call classified an XInput key event whose key is mapped
C30_MappedKeyEvent ==
  /\ call.fn = "process_event"
  /\ ret.set
  /\ ClearBit7(call.ev.response_type) = XCB_GE_GENERIC
  /\ call.ev.extension = xinput
  /\ ClearBit7(call.ev.event_type) \in {XCB_INPUT_KEY_PRESS, XCB_INPUT_KEY_RELEASE}
  /\ keysym_to_key(call.ev.keysym, call.ev.keysym2) # "None"

\* the repeat flag is set in the record of the call
C30_Repeat ==
  call.ev.flags \in {XCB_INPUT_KEY_EVENT_FLAGS_KEY_REPEAT,
                     XCB_INPUT_KEY_EVENT_FLAGS_KEY_REPEAT + 1}

\* C30: for an XInput key event with a mapped key, a press without the repeat
\* flag is a key-down, a press with it is a key-repeat, and a release is a
\* key-up whatever the flag; the target is the record's event window
C30_KeyEventKinds ==
  C30_MappedKeyEvent =>
    /\ ret.mapping.win = call.ev.event
    /\ ret.mapping.key = keysym_to_key(call.ev.keysym, call.ev.keysym2)
    /\ ClearBit7(call.ev.event_type) = XCB_INPUT_KEY_PRESS /\ ~C30_Repeat
         => ret.mapping.ev = "KeyboardDown"
    /\ ClearBit7(call.ev.event_type) = XCB_INPUT_KEY_PRESS /\ C30_Repeat
         => ret.mapping.ev = "KeyboardRepeat"
    /\ ClearBit7(call.ev.event_type) = XCB_INPUT_KEY_RELEASE
         => ret.mapping.ev = "KeyboardUp"

\* a release with the repeat flag, for the second window, came out as key-up
C30_Witness ==
  /\ C30_MappedKeyEvent
  /\ call.ev.event_type = XCB_INPUT_KEY_RELEASE
  /\ C30_Repeat
  /\ call.ev.event = 2
  /\ ret.mapping = [ev |-> "KeyboardUp", key |-> "A", win |-> 2]

----------------------------------------------------------------------------
(* C32: the hostname loop *)

RECURSIVE Doubled(_, _)
\* l doubled n times
Doubled(l, n) == IF n = 0 THEN l ELSE Doubled(2 * l, n - 1)

\* in the loop, host_tries calls have failed and the next one asks for len bytes
C32_Inv ==
  conn_pc = "host" =>
    /\ host_tries > 0 => host_err # 0
    /\ host_tries \in 0..12
    /\ len = Doubled(HOST_LEN_FIRST, host_tries)
    /\ len <= HOST_LEN_LIMIT

C32_Step ==
  conn_pc = "host" =>
    /\ conn_pc' \in {"host", "ready"}
    /\ conn_pc' = "host" =>
         /\ len < HOST_LEN_LIMIT
         /\ len' = 2 * len
         /\ host_tries' = host_tries + 1
         /\ hostname' = hostname
         /\ host_err' # 0
    /\ conn_pc' = "ready" =>
         /\ hostname' \in {"Some", "None"}
         /\ hostname' = "Some" <=> host_err' = 0
         /\ hostname' = "None" <=> (host_err' # 0 /\ len = HOST_LEN_LIMIT)
    /\ host_err' = 0 => conn_pc' = "ready"
    /\ len = HOST_LEN_LIMIT => conn_pc' = "ready"

\* C32: the hostname loop ends: it asks for 16, 32, ..., 65536 bytes in that
\* order, stops at the first call that succeeds, never asks for more than
\* 65536 bytes, makes at most 13 calls, and ends without a hostname only when
\* the call with 65536 bytes fails too
C32_HostnameLoopTerminates == []C32_Inv /\ [][C32_Step]_vars

\* twelve calls have failed and the thirteenth asks for 65536 bytes
C32_Witness ==
  /\ conn_pc = "host"
  /\ host_tries = 12
  /\ len = HOST_LEN_LIMIT

----------------------------------------------------------------------------
(* C33: teardown of the capability table *)

\* the teardowns in the log
C33_Drops == {i \in DOMAIN ffi_log : ffi_log[i].op = "drop"}

\* C33: teardown is gated by validity: on an invalid table it makes no native
\* call, in particular none through a placeholder, and cannot fail; on a
\* valid table it disconnects the connection exactly once
C33_TeardownGatedByValidity ==
  /\ Cardinality(C33_Drops) <= 1
  /\ \A i \in C33_Drops :
       /\ ffi_log[i].out = "unit"
       /\ ffi_log[i].fns = "do_not_call" => ffi_log[i].through = 0
       /\ ffi_log[i].fns = "native" =>
            /\ ffi_log[i].through = 1
            /\ native_conns = 0

----------------------------------------------------------------------------
(* Callers that block in mutex_lock, under fair scheduling *)

\* callers blocked in mutex_lock at a time
MaxWaiters == 1

Waiters == {w \in Slots : pc[w] \in WaitPCs}

\* Window::new reaches mutex_lock (imp.rs:197) and may have to wait there
WaitCreate(w) ==
  /\ Cardinality(Waiters) < MaxWaiters
  /\ conn_pc = "ready"
  /\ user_handle
  /\ pc[w] = "none"
  /\ \A v \in Slots : v < w => pc[v] # "none"
  /\ pc' = [pc EXCEPT ![w] = "c_wait"]
  /\ UNCHANGED <<conn_vars>>
  /\ UNCHANGED <<xid, handle, win_event_buffer, result, requests>>
  /\ UNCHANGED <<x_vars, hist_vars>>
  /\ UNCHANGED <<xi, fault, pure_vars, ffi_vars>>

\* poll_events reaches mutex_lock (imp.rs:396)
WaitPoll(w) ==
  /\ Cardinality(Waiters) < MaxWaiters
  /\ pc[w] = "live"
  /\ pc' = [pc EXCEPT ![w] = "p_wait"]
  /\ UNCHANGED <<conn_vars>>
  /\ UNCHANGED <<xid, handle, win_event_buffer, result, requests>>
  /\ UNCHANGED <<x_vars, hist_vars>>
  /\ UNCHANGED <<xi, fault, pure_vars, ffi_vars>>

\* Drop for Window reaches mutex_lock (imp.rs:445)
WaitDrop(w) ==
  /\ Cardinality(Waiters) < MaxWaiters
  /\ pc[w] = "live"
  /\ pc' = [pc EXCEPT ![w] = "d_wait"]
  /\ UNCHANGED <<conn_vars>>
  /\ UNCHANGED <<xid, handle, win_event_buffer, result, requests>>
  /\ UNCHANGED <<x_vars, hist_vars>>
  /\ UNCHANGED <<xi, fault, pure_vars, ffi_vars>>

\* mutex_lock returns to a caller that waited in it
Acquire(w) ==
  \/ pc[w] = "c_wait" /\ CreateLock(w)
  \/ pc[w] = "p_wait" /\ PollLock(w)
  \/ pc[w] = "d_wait" /\ DropLock(w)

\* the next step of the operation that holds the lock: every native call of
\* the three bodies returns
Progress(w) ==
  \/ CreateId(w)
  \/ CreateFirst(w)
  \/ CreateQueued(w)
  \/ CreateWindow(w)
  \/ CreateMap(w)
  \/ CreateFlush(w)
  \/ PollSwap(w)
  \/ PollFirst(w)
  \/ PollQueued(w)
  \/ DropDestroy(w)
  \/ DropFlush(w)

\* records the server has sent that a poll has not read yet
MaxBuffered == 2

\* the server sends a motion record while fewer than MaxBuffered records have
\* been sent
ServerSendFew ==
  /\ conn_pc = "ready"
  /\ nsent < MaxBuffered
  /\ \E c \in {<<"motion", 1>>} :
       wire' = Append(wire, NativeEvent(c[1], c[2], nsent + 1))
  /\ nsent' = nsent + 1
  /\ UNCHANGED <<queue, nfaults, server_windows, hist_vars>>
  /\ UNCHANGED <<conn_vars, win_vars>>
  /\ UNCHANGED <<xi, fault, pure_vars, ffi_vars>>

\* an established Connection whose hostname was read
InitFair ==
  /\ Init
  /\ hostname = "Some"

NextFair ==
  \/ ServerSendFew
  \/ \E w \in Slots : WaitCreate(w)
  \/ \E w \in Slots : WaitPoll(w)
  \/ \E w \in Slots : WaitDrop(w)
  \/ \E w \in Slots : Acquire(w)
  \/ \E w \in Slots : Progress(w)

\* a thread that runs keeps running, and the mutex does not pass over a
\* waiter forever
Fairness ==
  \A w \in Slots : WF_vars(Progress(w)) /\ SF_vars(Acquire(w))

SpecFair == InitFair /\ [][NextFair]_vars /\ Fairness

\* C31: create, poll and destroy each terminate and hold the lock at no
\* exit, error returns of create included, and under fair scheduling a caller
\* waiting for the lock eventually acquires it.
C31_Inv ==
  /\ \A w \in Slots : pc[w] \notin CriticalPCs => mutex # w
  /\ (\A w \in Slots : pc[w] \notin CriticalPCs) => mutex = None

C31_Terminates ==
  (\E w \in Slots : pc[w] \in CriticalPCs) ~> (\A w \in Slots : pc[w] \notin CriticalPCs)

C31_Acquires ==
  \A w \in Slots : (pc[w] \in WaitPCs) ~> (pc[w] \in CriticalPCs)

C31_OperationsTerminateAndRelease ==
  []C31_Inv /\ C31_Terminates /\ C31_Acquires

C31_Witness ==
  \E w, v \in Slots :
    /\ pc[w] \in WaitPCs
    /\ pc[v] = "p_queued"
    /\ mutex = v
    /\ queue # << >>
    /\ nfaults > 0
====
